---------------------------- MODULE Spec2Model ----------------------------
(***************************************************************************)
(* The memory bootstrap of the denuos kernel as state machines.            *)
(*                                                                         *)
(* Spec: the physical frame allocator (arch/x86/frame_allocator.rs).  The  *)
(* boot memory map and the protected regions are the inputs, FALLOCATOR is *)
(* the global allocator, and the actions are the module's public functions *)
(* initialize, frame_alloc, frame_free and FrameAllocator::free_pages.     *)
(* SpecIndex: the index functions of arch/x86/paging.rs on 64-bit          *)
(* addresses.  SpecPaging: the facade PT4 of paging.rs (new, map_to_4k,    *)
(* map_to_2m, map_to_1g, map_4k) on an initialized allocator.  SpecLock:   *)
(* frame_alloc called by two callers whose steps interleave.  SpecBoot:    *)
(* kstart (arch/x86/mod.rs) from its entry to kmain, with                  *)
(* paging::initialize.  SpecWalk: the chains of map_to_4k, map_to_2m and   *)
(* map_to_1g one memory access at a time.  SpecIrq: frame_alloc called by  *)
(* the boot path and by an interrupt handler that preempts it on one CPU.  *)
(* SpecReinit: the allocator with initialize run again.  SpecHeap: the     *)
(* bump allocator of the kernel heap (mem/kalloc/lib.rs).  SpecKernel:     *)
(* kstart followed by heap requests in kmain.  A panic halts the kernel    *)
(* (vestige.rs: the panic handler never returns).                          *)
(*                                                                         *)
(* Addresses of the allocator are byte addresses, numbers far below the    *)
(* top of usize, so the additions of the allocator cannot wrap; the one    *)
(* subtraction that can underflow (free_pages) is modelled with both       *)
(* outcomes a build can produce.  Virtual addresses, page-table entries    *)
(* and the addresses and sizes of the heap are 64-bit words, sets of bit   *)
(* positions; the additions of the heap allocator can overflow and are     *)
(* modelled with both outcomes as well.                                    *)
(***************************************************************************)
EXTENDS Integers, Sequences, FiniteSets, TLC

(***************************************************************************)
(* Bounds of the model.                                                    *)
(***************************************************************************)
\* A one-entry memory map and the protected regions lie in pages
\* 0 .. MaxPages-1.
MaxPages == 4
\* The largest number of entries of a multi-entry memory map.
MaxEntries == 3
\* The largest length, in pages, of an entry of a multi-entry memory map.
MaxLenPages == 3
\* Width of usize in the model (64 in the kernel): wide enough that a wrapped
\* difference is larger than every page count of the model.
UsizeBits == 24
\* The largest number of mapping calls made on one page-table tree.
MaxCalls == 2
\* The largest number of frames of an allocator that is meant to run out
\* of memory in the middle of a mapping call.
MaxScarceFrames == 3

(***************************************************************************)
(* Program constants.                                                      *)
(***************************************************************************)
PAGE_SIZE == 4096

Usize == 2 ^ UsizeBits

\* const MASK: usize = PAGE_SIZE - 1 (local to Frame::after)
MASK == PAGE_SIZE - 1

MMapEntryType == {"Free", "Reserved", "ACPI", "Preserve", "Bad"}

\* Option<T>: None is the empty sequence, Some(x) is <<x>>.
None == << >>
Some(x) == << x >>
unwrap(o) == o[1]

VARIABLES
    mem_regions,        \* the boot memory map: a sequence of MMapEntry
    protected_regions,  \* ProtectedRegions: [MemRegion; 2], each <<first, last>>
    FALLOCATOR,         \* Option<Mutex<FrameAllocator>>
    free_region,        \* Option: the entry FrameAllocator::new selected
    issued,             \* the Frames returned by alloc(), in order
    freed,              \* the Frames passed to free()
    ret,                \* Option: what the last call returned
    halted,             \* "" while running, else the panic message
    pt_mem,             \* the frames holding page tables: address -> PageTable
    pt4,                \* Option: the address of the root table (PT4.table)
    op,                 \* Option: the last call of paging.rs and its arguments
    calls,              \* the number of facade calls made so far
    boot,               \* the position of kstart, and what cr3 was loaded with
    lock,               \* the Mutex of FALLOCATOR: None, or Some(its holder)
    callers,            \* the callers of frame_alloc(): position and locals
    ALLOCATOR,          \* kalloc's static ALLOCATOR: the BumpAllocator in its Mutex
    blocks              \* the blocks the heap allocator returned, in order

\* The state of paging.rs, of kstart and of the callers of frame_alloc().
pvars == << pt_mem, pt4, op, calls, boot, lock, callers >>

\* The state of kalloc.
hvars == << ALLOCATOR, blocks >>

vars == << mem_regions, protected_regions, FALLOCATOR, free_region,
           issued, freed, ret, halted,
           pt_mem, pt4, op, calls, boot, lock, callers,
           ALLOCATOR, blocks >>

(***************************************************************************)
(* multiboot.rs: MMapEntry                                                 *)
(***************************************************************************)
\* Mutant of is_free: the test names the wrong variant.
is_free_not_reserved(r) == r.ty # "Reserved"

is_free(r) == r.ty = "Free"

\* MMapEntry::start, size and end are called by FrameAllocator::new; a
\* region is the pair of its first and last byte.
MMapEntry_start(r) == r.base_addr
MMapEntry_size(r) == r.length
MMapEntry_end(r) == r.base_addr + r.length - 1

(***************************************************************************)
(* frame_allocator.rs: Frame (a Frame is its index)                        *)
(***************************************************************************)
addr(frame) == frame * PAGE_SIZE

containing(a) == a \div PAGE_SIZE

\* Mutant of after: the address is rounded down, not up.
after_round_down(a) == containing(a)

\* (addr + MASK) & !MASK: clearing the low 12 bits
after(a) == containing(((a + MASK) \div PAGE_SIZE) * PAGE_SIZE)

(***************************************************************************)
(* frame_allocator.rs: FrameAllocator                                      *)
(***************************************************************************)
\* Mutant of FreeIndices: the filter is missing.
AllIndices(regions) == 1..Len(regions)

\* mem_regions.iter().filter(|r| r.is_free()): the indices, in order
FreeIndices(regions) == { i \in 1..Len(regions) : is_free(regions[i]) }

\* Iterator::max_by_key: the last element among those of maximal key
max_by_key_size(regions, idx) ==
    CHOOSE i \in idx :
        \A j \in idx :
            \/ MMapEntry_size(regions[j]) < MMapEntry_size(regions[i])
            \/ (MMapEntry_size(regions[j]) = MMapEntry_size(regions[i]) /\ j <= i)

\* FrameAllocator::new: the panic message, or the allocator and the region
new(regions, protected) ==
    LET idx == FreeIndices(regions) IN
    IF idx = {}
    THEN [panic |-> "No usable memory", allocator |-> None, region |-> None]
    ELSE LET fr == regions[max_by_key_size(regions, idx)] IN
         [panic |-> "",
          allocator |-> Some([start |-> addr(after(MMapEntry_start(fr))),
                              end |-> addr(containing(MMapEntry_end(fr))),
                              protected_regions |-> protected]),
          region |-> Some(fr)]

\* FrameAllocator::next_page: Option<Frame> and the allocator afterwards
next_page(self) ==
    IF self.start >= self.end
    THEN [frame |-> None, self |-> self]
    ELSE [frame |-> Some(containing(self.start)),
          self |-> [self EXCEPT !.start = self.start + PAGE_SIZE]]

\* Mutant of is_protected: the first page of a region is rounded up.
is_protected_rounded_up(self, page) ==
    \E k \in 1..Len(self.protected_regions) :
        LET region == self.protected_regions[k]
            start == after(region[1])
            end == containing(region[2])
        IN page >= start /\ page <= end

\* The body of the loop over &self.protected_regions: does the candidate lie
\* in a protected region
is_protected(self, page) ==
    \E k \in 1..Len(self.protected_regions) :
        LET region == self.protected_regions[k]
            start == containing(region[1])
            end == containing(region[2])
        IN page >= start /\ page <= end

\* Mutant of alloc: the advance of the cursor is lost when a frame is returned.
RECURSIVE alloc_lost_advance(_)
alloc_lost_advance(self) ==
    LET np == next_page(self) IN
    IF np.frame = None
    THEN [panic |-> "Out of memory", frame |-> None, self |-> np.self]
    ELSE IF is_protected(np.self, unwrap(np.frame))
         THEN alloc_lost_advance(np.self)
         ELSE [panic |-> "", frame |-> np.frame, self |-> self]

\* FrameAllocator::alloc: the 'verify_frame loop
RECURSIVE alloc(_)
alloc(self) ==
    LET np == next_page(self) IN
    IF np.frame = None
    THEN [panic |-> "Out of memory", frame |-> None, self |-> np.self]
    ELSE IF is_protected(np.self, unwrap(np.frame))
         THEN alloc(np.self)
         ELSE [panic |-> "", frame |-> np.frame, self |-> np.self]

\* Mutant of free: the cursor is moved back to the freed frame.
free_rewind(self, frame) == [self EXCEPT !.start = addr(frame)]

\* FrameAllocator::free: NYI, the allocator is unchanged
free(self, frame) == self

\* Mutant of free_pages: the + 1 is missing.
free_pages_no_plus_one(self) ==
    [overflow |-> self.start > self.end,
     val |-> ((self.end - self.start) % Usize) \div PAGE_SIZE]

\* Mutant of free_pages: the + 1 is added to the divisor.
free_pages_precedence(self) ==
    [overflow |-> self.start > self.end,
     val |-> ((self.end - self.start) % Usize) \div (PAGE_SIZE + 1)]

\* FrameAllocator::free_pages: (self.end - self.start) / PAGE_SIZE + 1 in
\* usize arithmetic.  The subtraction underflows when start > end: a build
\* with overflow checks panics there, one without wraps.
free_pages(self) ==
    [overflow |-> self.start > self.end,
     val |-> ((self.end - self.start) % Usize) \div PAGE_SIZE + 1]

(***************************************************************************)
(* paging.rs: 64-bit words.  A usize of paging.rs is the set of the        *)
(* positions of its one bits, bit 0 the least significant, so that         *)
(* addresses of the upper half of the address space keep all their bits.   *)
(***************************************************************************)
Word == 0..63

\* The word of a number below 2^31, and the number of a word below 2^31.
ToBits(n) == { b \in 0..30 : (n \div (2 ^ b)) % 2 = 1 }

RECURSIVE FromBits(_)
FromBits(w) ==
    IF w = {} THEN 0
    ELSE LET b == CHOOSE x \in w : TRUE IN 2 ^ b + FromBits(w \ {b})

\* The operators &, |, << and >> of usize
BitAnd(a, b) == a \cap b
BitOr(a, b) == a \cup b
Shl(a, k) == { b + k : b \in a } \cap Word
Shr(a, k) == { b - k : b \in a } \cap Word

\* The operator + of usize, wrapping at 2^64: bit i of the sum is the
\* exclusive or of the two bits and the carry into position i.  A carry
\* enters position i when some lower position j generates one (both bits
\* set) and every position between j and i passes it on (a bit set).
Carry(a, b, i) ==
    \E j \in 0..(i - 1) :
        /\ j \in a /\ j \in b
        /\ \A k \in (j + 1)..(i - 1) : k \in a \/ k \in b

WrappingAdd(a, b) ==
    { i \in Word : ((i \in a) # (i \in b)) # Carry(a, b, i) }

(***************************************************************************)
(* kalloc/lib.rs: the kernel heap, a bump allocator behind a Mutex.  The   *)
(* addresses, sizes and alignments are usize words.                        *)
(***************************************************************************)
\* HEAP_START = 0xffff_e000_0000_0000, HEAP_SIZE = 1 MiB
HEAP_START == 45..63
HEAP_SIZE == 1024 * 1024

\* The operator <= of usize
Leq(a, b) ==
    \/ a = b
    \/ LET d == (a \ b) \cup (b \ a)
           top == CHOOSE x \in d : \A y \in d : y <= x
       IN top \in b

\* a + b does not fit in a usize: a build with overflow checks panics, one
\* without wraps
AddOverflows(a, b) == Carry(a, b, 64)

\* let mask = align - 1
align_mask(align) == WrappingAdd(align, Word)

\* align_up: (start + mask) & !mask
align_up(start, align) ==
    LET mask == align_mask(align)
    IN BitAnd(WrappingAdd(start, mask), Word \ mask)

\* BumpAllocator::new
BumpAllocator_new(start, size) ==
    [next |-> start, end |-> WrappingAdd(start, size)]

\* <BumpAllocator as Alloc>::alloc: the allocator afterwards, the Result
\* (None for Err(AllocErr)) and whether an addition overflowed
BumpAllocator_alloc(self, layout) ==
    LET size == layout.size
        align == layout.align
        alloc_start == align_up(self.next, align)
        alloc_end == WrappingAdd(alloc_start, size)
    IN [overflow |-> \/ AddOverflows(self.next, align_mask(align))
                     \/ AddOverflows(alloc_start, size),
        self |-> IF Leq(alloc_end, self.end)
                 THEN [self EXCEPT !.next = alloc_end]
                 ELSE self,
        result |-> IF Leq(alloc_end, self.end) THEN Some(alloc_start) ELSE None]

\* <BumpAllocator as Alloc>::dealloc: the memory is leaked
BumpAllocator_dealloc(self, ptr, layout) == self

\* <GlobalAllocator as GlobalAlloc>::alloc: the pointer, 0 for an Err
GlobalAllocator_alloc(self, layout) ==
    LET r == BumpAllocator_alloc(self, layout) IN
    [overflow |-> r.overflow,
     self |-> r.self,
     ptr |-> IF r.result = None THEN {} ELSE unwrap(r.result)]

\* static ALLOCATOR: GlobalAllocator = GlobalAllocator::new(), and no block
\* handed out
HeapIdle ==
    /\ ALLOCATOR = BumpAllocator_new(HEAP_START, ToBits(HEAP_SIZE))
    /\ blocks = << >>

(***************************************************************************)
(* The inputs.                                                             *)
(***************************************************************************)
\* Byte addresses at the start, just after the start and at the end of a page.
Addrs == { p * PAGE_SIZE + o : p \in 0..(MaxPages - 1), o \in {0, 1, MASK} }

\* Protected regions start or end on a page boundary or in mid-page.
PAddrs == { p * PAGE_SIZE + o : p \in 0..(MaxPages - 1), o \in {0, 2048} }

MemRegions == { r \in PAddrs \X PAddrs : r[1] <= r[2] }

\* A map of one entry, with every placement of its first and last byte.
WindowMaps ==
    { << [base_addr |-> r[1], length |-> r[2] - r[1] + 1, ty |-> "Free"] >> :
        r \in { x \in Addrs \X Addrs : x[1] <= x[2] } }

\* Maps of several page-granular entries of every type, laid out one after
\* the other from address 0 as a boot loader reports them.
BootShapes ==
    UNION { [1..n -> [length : { k * PAGE_SIZE : k \in 1..MaxLenPages },
                      ty : MMapEntryType]] : n \in 0..MaxEntries }

RECURSIVE BaseOf(_, _)
BaseOf(shape, i) == IF i = 1 THEN 0 ELSE BaseOf(shape, i - 1) + shape[i - 1].length

BootMaps ==
    { [i \in 1..Len(shape) |->
          [base_addr |-> BaseOf(shape, i),
           length |-> shape[i].length,
           ty |-> shape[i].ty]] : shape \in BootShapes }

Inputs ==
    (WindowMaps \X (MemRegions \X MemRegions))
    \cup (BootMaps \X { << <<0, 0>>, <<0, 0>> >> })

\* Before kstart: no page table exists, cr3 still holds the boot loader's
\* tables, nobody has called frame_alloc().
Callers == {"boot", "irq"}

PagingIdle ==
    /\ pt_mem = << >>
    /\ pt4 = None
    /\ op = None
    /\ calls = 0
    /\ boot = [pc |-> "kstart", i |-> 0, cr3 |-> None, activations |-> 0]
    /\ lock = None
    /\ callers = [c \in Callers |->
                    [pc |-> "idle", page |-> None, tmp |-> 0,
                     advanced |-> 0, got |-> << >>]]

Init ==
    /\ \E in \in Inputs :
        /\ mem_regions = in[1]
        /\ protected_regions = in[2]
    /\ FALLOCATOR = None
    /\ free_region = None
    /\ issued = << >>
    /\ freed = {}
    /\ ret = None
    /\ halted = ""
    /\ PagingIdle /\ HeapIdle

(***************************************************************************)
(* The operations.                                                         *)
(***************************************************************************)
\* frame_allocator::initialize, as kstart calls it once at boot
Initialize ==
    /\ halted = ""
    /\ FALLOCATOR = None
    /\ LET r == new(mem_regions, protected_regions) IN
        /\ halted' = r.panic
        /\ FALLOCATOR' = r.allocator
        /\ free_region' = r.region
    /\ ret' = None
    /\ UNCHANGED << mem_regions, protected_regions, issued, freed >>
    /\ UNCHANGED pvars
    /\ UNCHANGED hvars

\* frame_alloc(): get_fallocator().alloc()
FrameAlloc ==
    /\ halted = ""
    /\ FALLOCATOR # None
    /\ LET r == alloc(unwrap(FALLOCATOR)) IN
        /\ halted' = r.panic
        /\ FALLOCATOR' = Some(r.self)
        /\ issued' = IF r.frame = None THEN issued
                     ELSE Append(issued, unwrap(r.frame))
        /\ ret' = IF r.frame = None THEN None
                  ELSE Some([op |-> "alloc", val |-> unwrap(r.frame)])
    /\ UNCHANGED << mem_regions, protected_regions, free_region, freed >>
    /\ UNCHANGED pvars
    /\ UNCHANGED hvars

\* The Frames a caller still holds: Frame is neither Clone nor Copy and its
\* constructors are private, so free() takes a Frame alloc() returned.
Held == { issued[i] : i \in 1..Len(issued) } \ freed

\* frame_free(frame): get_fallocator().free(frame)
FrameFree ==
    /\ halted = ""
    /\ FALLOCATOR # None
    /\ \E frame \in Held :
        /\ FALLOCATOR' = Some(free(unwrap(FALLOCATOR), frame))
        /\ freed' = freed \cup {frame}
        /\ ret' = Some([op |-> "free", val |-> frame])
    /\ UNCHANGED << mem_regions, protected_regions, free_region, issued, halted >>
    /\ UNCHANGED pvars
    /\ UNCHANGED hvars

\* get_fallocator().free_pages()
FreePages ==
    /\ halted = ""
    /\ FALLOCATOR # None
    /\ LET r == free_pages(unwrap(FALLOCATOR)) IN
       \E overflow_checks \in (IF r.overflow THEN BOOLEAN ELSE {FALSE}) :
        /\ halted' = IF overflow_checks
                     THEN "attempt to subtract with overflow" ELSE ""
        /\ ret' = IF overflow_checks THEN None
                  ELSE Some([op |-> "free_pages", val |-> r.val])
    /\ UNCHANGED << mem_regions, protected_regions, FALLOCATOR, free_region,
                    issued, freed >>
    /\ UNCHANGED pvars
    /\ UNCHANGED hvars

Next == Initialize \/ FrameAlloc \/ FrameFree \/ FreePages

Spec == Init /\ [][Next]_vars

(***************************************************************************)
(* paging.rs: constants and the index of an address at each level          *)
(***************************************************************************)
\* 0x000f_ffff_ffff_f000
PTE_ADDR_MASK == 12..51

PT1_INDEX == Shl(ToBits(511), 0 * 9 + 12)
PT2_INDEX == Shl(ToBits(511), 1 * 9 + 12)
PT3_INDEX == Shl(ToBits(511), 2 * 9 + 12)
PT4_INDEX == Shl(ToBits(511), 3 * 9 + 12)

NUM_ENTRIES == 512

get_pt1_index(val) == FromBits(Shr(BitAnd(val, PT1_INDEX), 12))

get_pt2_index(val) == FromBits(Shr(BitAnd(val, PT2_INDEX), 21))

\* Mutant of get_pt3_index: the shift of the level below.
get_pt3_index_shift21(val) ==
    FromBits(Shr(BitAnd(val, PT3_INDEX), 21) \cap (0..17))

get_pt3_index(val) == FromBits(Shr(BitAnd(val, PT3_INDEX), 30))

\* Mutant of get_pt4_index: the lowest bit of the index is dropped.
get_pt4_index_even(val) ==
    FromBits(Shr(BitAnd(val, PT4_INDEX), 39) \ {0})

get_pt4_index(val) == FromBits(Shr(BitAnd(val, PT4_INDEX), 39))

(***************************************************************************)
(* The index functions on their own: pure functions, so a behaviour is one *)
(* call of the four of them with any address.                              *)
(***************************************************************************)
\* Addresses with every combination of the lowest and highest bit of the
\* page offset and of each index, and bits 48..63 all clear, all set, or
\* only partly set.
VAddrBits == {0, 11, 12, 20, 21, 29, 30, 38, 39, 47}

VAddrs == { low \cup high : low \in SUBSET VAddrBits,
                            high \in { {}, 48..63, {48}, 49..63 } }

NoAllocator ==
    /\ mem_regions = << >>
    /\ protected_regions = << <<0, 0>>, <<0, 0>> >>
    /\ FALLOCATOR = None
    /\ free_region = None
    /\ issued = << >>
    /\ freed = {}
    /\ ret = None
    /\ halted = ""

InitIndex == NoAllocator /\ PagingIdle /\ HeapIdle

GetPtIndex ==
    /\ op = None
    /\ \E v \in VAddrs :
        op' = Some([name |-> "get_pt_index", vaddr |-> v,
                    i1 |-> get_pt1_index(v), i2 |-> get_pt2_index(v),
                    i3 |-> get_pt3_index(v), i4 |-> get_pt4_index(v)])
    /\ UNCHANGED << mem_regions, protected_regions, FALLOCATOR, free_region,
                    issued, freed, ret, halted >>
    /\ UNCHANGED << pt_mem, pt4, calls, boot, lock, callers >>
    /\ UNCHANGED hvars

NextIndex == GetPtIndex

SpecIndex == InitIndex /\ [][NextIndex]_vars

(***************************************************************************)
(* paging.rs: PageFlags and PageEntry<L>.  An entry is its value, a word;  *)
(* the level L of an entry or table is a parameter LEVEL in 1..4.          *)
(***************************************************************************)
NONE == {}
PRESENT == {0}
WRITE == {1}
USER == {2}
WRITE_THROUGH == {3}
NO_CACHE == {4}
ACCESSED == {5}
DIRTY == {6}
HUGE == {7}
GLOBAL == {8}
NO_EXECUTE == {63}

PageFlags ==
    UNION {PRESENT, WRITE, USER, WRITE_THROUGH, NO_CACHE, ACCESSED, DIRTY,
           HUGE, GLOBAL, NO_EXECUTE}

from_bits_truncate(bits) == BitAnd(bits, PageFlags)

\* PageLevel::can_be_huge
can_be_huge(LEVEL) == LEVEL = 2 \/ LEVEL = 3

\* PageEntry::set_addr: the value the entry is assigned
set_addr(a) == BitAnd(a, PTE_ADDR_MASK)

get_addr(value) == BitAnd(value, PTE_ADDR_MASK)

flags(value) == from_bits_truncate(value)

terminal(LEVEL, value) ==
    IF LEVEL = 1 THEN TRUE
    ELSE IF can_be_huge(LEVEL) THEN HUGE \subseteq flags(value)
    ELSE FALSE

present(value) == PRESENT \subseteq flags(value)

points_to_table(LEVEL, value) == present(value) /\ ~terminal(LEVEL, value)

(***************************************************************************)
(* paging.rs: PageTable<L>.  The memory `mem` maps the address of each     *)
(* frame that holds a table to the table; a table maps the indices of its  *)
(* nonzero entries to their values, every other entry being 0.  The        *)
(* machine `m` threaded through the calls is the allocator, the frames it  *)
(* issued, the memory and the panic message ("" while none).               *)
(***************************************************************************)
Put(f, k, v) == [x \in DOMAIN f \cup {k} |-> IF x = k THEN v ELSE f[x]]

\* self.entries[index].value of the table at address `table`
Entry(mem, table, index) ==
    IF index \in DOMAIN mem[table] THEN mem[table][index] ELSE {}

SetEntry(mem, table, index, value) ==
    Put(mem, table, Put(mem[table], index, value))

\* Mutant of frame_alloc: the cursor is not advanced past the issued frame.
frame_alloc_no_advance(m) ==
    LET r == alloc(m.fa) IN
    [m |-> [m EXCEPT !.panic = r.panic,
                     !.issued = IF r.frame = None THEN @
                                ELSE Append(@, unwrap(r.frame))],
     frame |-> r.frame]

\* frame_alloc(): get_fallocator().alloc(), panicking with "Out of memory"
frame_alloc(m) ==
    LET r == alloc(m.fa) IN
    [m |-> [m EXCEPT !.fa = r.self,
                     !.panic = r.panic,
                     !.issued = IF r.frame = None THEN @
                                ELSE Append(@, unwrap(r.frame))],
     frame |-> r.frame]

\* Frame::clear: the page is filled with zero bytes
clear(mem, frame) == Put(mem, addr(frame), << >>)

\* PageTable::new: the machine afterwards and the *mut PageTable (None when
\* frame_alloc panicked)
PageTable_new(m) ==
    LET a == frame_alloc(m) IN
    IF a.frame = None THEN [m |-> a.m, pt |-> None]
    ELSE [m |-> [a.m EXCEPT !.mem = clear(@, unwrap(a.frame))],
          pt |-> Some(addr(unwrap(a.frame)))]

\* Mutant of map_mem: the caller's flags are not stored.
map_mem_drops_flags(mem, table, LEVEL, index, paddr, fl) ==
    LET v1 == set_addr(paddr)
        v3 == BitOr(v1, PRESENT)
        v4 == IF can_be_huge(LEVEL) THEN BitOr(v3, HUGE) ELSE v3
    IN SetEntry(mem, table, index, v4)

\* Mutant of map_mem: the address is or-ed into the slot, not assigned.
map_mem_or_into(mem, table, LEVEL, index, paddr, fl) ==
    LET v1 == BitOr(Entry(mem, table, index), set_addr(paddr))
        v2 == BitOr(v1, fl)
        v3 == BitOr(v2, PRESENT)
        v4 == IF can_be_huge(LEVEL) THEN BitOr(v3, HUGE) ELSE v3
    IN SetEntry(mem, table, index, v4)

map_mem(mem, table, LEVEL, index, paddr, fl) ==
    LET v1 == set_addr(paddr)
        v2 == BitOr(v1, fl)
        v3 == BitOr(v2, PRESENT)
        v4 == IF can_be_huge(LEVEL) THEN BitOr(v3, HUGE) ELSE v3
    IN SetEntry(mem, table, index, v4)

\* Mutant of map_table: the entry of a table is marked PRESENT only.
map_table_present_only(mem, table, index, pt) ==
    SetEntry(mem, table, index, BitOr(set_addr(ToBits(pt)), PRESENT))

map_table(mem, table, index, pt) ==
    SetEntry(mem, table, index,
             BitOr(set_addr(ToBits(pt)), UNION {PRESENT, USER, WRITE}))

\* PageTable::get_table_mut: Option of the address of the next table
get_table_mut(mem, table, LEVEL, index) ==
    LET entry == Entry(mem, table, index) IN
    IF ~points_to_table(LEVEL, entry) THEN None
    ELSE Some(FromBits(get_addr(entry)))

\* Mutant of get_new_table: an entry that does not point to a table is
\* treated as absent and replaced by a new table.
get_new_table_replaces(m, table, LEVEL, index) ==
    IF points_to_table(LEVEL, Entry(m.mem, table, index))
    THEN [m |-> m, pt |-> get_table_mut(m.mem, table, LEVEL, index)]
    ELSE LET n == PageTable_new(m) IN
         IF n.pt = None THEN n
         ELSE [m |-> [n.m EXCEPT !.mem = map_table(@, table, index, unwrap(n.pt))],
               pt |-> n.pt]

\* Mutant of get_new_table: a new table is allocated and installed whether
\* or not the entry already points to one.
get_new_table_always_new(m, table, LEVEL, index) ==
    IF present(Entry(m.mem, table, index))
       /\ ~points_to_table(LEVEL, Entry(m.mem, table, index))
    THEN [m |-> [m EXCEPT !.panic = "Memory already mapped to"], pt |-> None]
    ELSE LET n == PageTable_new(m) IN
         IF n.pt = None THEN n
         ELSE [m |-> [n.m EXCEPT !.mem = map_table(@, table, index, unwrap(n.pt))],
               pt |-> n.pt]

\* PageTable::get_new_table: the machine afterwards and the next table (None
\* when the call panicked)
get_new_table(m, table, LEVEL, index) ==
    IF present(Entry(m.mem, table, index))
    THEN LET t == get_table_mut(m.mem, table, LEVEL, index) IN
         IF t = None
         THEN [m |-> [m EXCEPT !.panic = "Memory already mapped to"],
               pt |-> None]
         ELSE [m |-> m, pt |-> t]
    ELSE LET n == PageTable_new(m) IN
         IF n.pt = None THEN n
         ELSE LET mem2 == map_table(n.m.mem, table, index, unwrap(n.pt)) IN
              [m |-> [n.m EXCEPT !.mem = mem2],
               pt |-> Some(unwrap(get_table_mut(mem2, table, LEVEL, index)))]

(***************************************************************************)
(* paging.rs: PT4, the facade.  `root` is the address of the level-4 table *)
(* (PT4.table); each operator is the machine after the call.  A method     *)
(* chain a.get_new_table(i).get_new_table(j).map_mem(..) applies each call *)
(* to the table the call before it returned; a panic ends the chain.       *)
(***************************************************************************)
\* .get_new_table(index) applied to the result r of the call before it
then_get_new_table(r, LEVEL, index) ==
    IF r.pt = None THEN r
    ELSE get_new_table(r.m, unwrap(r.pt), LEVEL, index)

\* .map_mem(index, paddr, flags) applied to the result r of the call before
then_map_mem(r, LEVEL, index, paddr, fl) ==
    IF r.pt = None THEN r.m
    ELSE [r.m EXCEPT !.mem = map_mem(@, unwrap(r.pt), LEVEL, index, paddr, fl)]

map_to_4k(m, root, vaddr, paddr, fl) ==
    then_map_mem(
        then_get_new_table(
            then_get_new_table(
                get_new_table(m, root, 4, get_pt4_index(vaddr)),
                3, get_pt3_index(vaddr)),
            2, get_pt2_index(vaddr)),
        1, get_pt1_index(vaddr), paddr, fl)

map_to_2m(m, root, vaddr, paddr, fl) ==
    then_map_mem(
        then_get_new_table(
            get_new_table(m, root, 4, get_pt4_index(vaddr)),
            3, get_pt3_index(vaddr)),
        2, get_pt2_index(vaddr), paddr, fl)

map_to_1g(m, root, vaddr, paddr, fl) ==
    then_map_mem(
        get_new_table(m, root, 4, get_pt4_index(vaddr)),
        3, get_pt3_index(vaddr), paddr, fl)

\* .map_to_4k(vaddr, frame_alloc().addr(), flags) applied to the result f
\* of frame_alloc()
then_map_to_4k(f, root, vaddr, fl) ==
    IF f.frame = None THEN f.m
    ELSE map_to_4k(f.m, root, vaddr, ToBits(addr(unwrap(f.frame))), fl)

\* PT4::map_4k: the frame is allocated before the walk
map_4k(m, root, vaddr, fl) == then_map_to_4k(frame_alloc(m), root, vaddr, fl)

(***************************************************************************)
(* The facade of paging.rs called in any order on an initialized           *)
(* allocator: PT4::new once, then up to MaxCalls mapping calls.            *)
(***************************************************************************)
\* Virtual addresses that share, pairwise, the indices of all levels above
\* level 1, 2, 3 or 4, or none: 0, 0x1001, 2 MiB, 1 GiB, 512 GiB, HEAP_START.
MapVAddrs == { {}, {0, 12}, {21}, {30}, {39}, (45..47) \cup (48..63) }

\* A physical address and flags: 0 with no flags, 0x2000 (a frame the
\* allocator issues) writable, or an address with bits below and above the
\* address field of an entry, with flags.
MapArgs == { << {}, NONE >>,
             << {13}, WRITE >>,
             << {0, 12, 13, 52}, UNION {WRITE, USER, NO_EXECUTE} >> }

MapFlags == { a[2] : a \in MapArgs }

\* The frames the allocator can issue: few (the walk runs out of memory
\* part-way), or enough for every call.
PagingFrames == (0..MaxScarceFrames) \cup {4 * MaxCalls + 1}

\* A memory map whose only entry is free and yields n frames from page 1 on
\* (next_page never issues the last page of the region); page 0 protected.
FramesMap(n) ==
    << [base_addr |-> PAGE_SIZE, length |-> (n + 1) * PAGE_SIZE, ty |-> "Free"] >>

Initialized(n) ==
    LET r == new(FramesMap(n), << <<0, 0>>, <<0, 0>> >>) IN
    /\ mem_regions = FramesMap(n)
    /\ protected_regions = << <<0, 0>>, <<0, 0>> >>
    /\ FALLOCATOR = r.allocator
    /\ free_region = r.region
    /\ issued = << >>
    /\ freed = {}
    /\ ret = None
    /\ halted = ""

InitPaging == (\E n \in PagingFrames : Initialized(n)) /\ PagingIdle /\ HeapIdle

\* The machine a call of paging.rs starts from, and the state it leaves.
Machine ==
    [fa |-> unwrap(FALLOCATOR), issued |-> issued, mem |-> pt_mem, panic |-> ""]

Commit(m) ==
    /\ FALLOCATOR' = Some(m.fa)
    /\ issued' = m.issued
    /\ pt_mem' = m.mem
    /\ halted' = m.panic
    /\ UNCHANGED << mem_regions, protected_regions, free_region, freed, ret >>

\* PT4::new
PT4_new ==
    /\ halted = ""
    /\ pt4 = None
    /\ LET n == PageTable_new(Machine) IN
        /\ Commit(n.m)
        /\ pt4' = n.pt
    /\ op' = Some([name |-> "PT4::new"])
    /\ UNCHANGED << calls, boot, lock, callers >>
    /\ UNCHANGED hvars

MapTo4k ==
    /\ halted = ""
    /\ pt4 # None
    /\ calls < MaxCalls
    /\ \E v \in MapVAddrs, a \in MapArgs :
        /\ Commit(map_to_4k(Machine, unwrap(pt4), v, a[1], a[2]))
        /\ op' = Some([name |-> "map_to_4k", vaddr |-> v,
                       paddr |-> a[1], flags |-> a[2]])
    /\ calls' = calls + 1
    /\ UNCHANGED << pt4, boot, lock, callers >>
    /\ UNCHANGED hvars

MapTo2m ==
    /\ halted = ""
    /\ pt4 # None
    /\ calls < MaxCalls
    /\ \E v \in MapVAddrs, a \in MapArgs :
        /\ Commit(map_to_2m(Machine, unwrap(pt4), v, a[1], a[2]))
        /\ op' = Some([name |-> "map_to_2m", vaddr |-> v,
                       paddr |-> a[1], flags |-> a[2]])
    /\ calls' = calls + 1
    /\ UNCHANGED << pt4, boot, lock, callers >>
    /\ UNCHANGED hvars

MapTo1g ==
    /\ halted = ""
    /\ pt4 # None
    /\ calls < MaxCalls
    /\ \E v \in MapVAddrs, a \in MapArgs :
        /\ Commit(map_to_1g(Machine, unwrap(pt4), v, a[1], a[2]))
        /\ op' = Some([name |-> "map_to_1g", vaddr |-> v,
                       paddr |-> a[1], flags |-> a[2]])
    /\ calls' = calls + 1
    /\ UNCHANGED << pt4, boot, lock, callers >>
    /\ UNCHANGED hvars

Map4k ==
    /\ halted = ""
    /\ pt4 # None
    /\ calls < MaxCalls
    /\ \E v \in MapVAddrs, fl \in MapFlags :
        /\ Commit(map_4k(Machine, unwrap(pt4), v, fl))
        /\ op' = Some([name |-> "map_4k", vaddr |-> v, flags |-> fl])
    /\ calls' = calls + 1
    /\ UNCHANGED << pt4, boot, lock, callers >>
    /\ UNCHANGED hvars

NextPaging == PT4_new \/ MapTo4k \/ MapTo2m \/ MapTo1g \/ Map4k

SpecPaging == InitPaging /\ [][NextPaging]_vars

(***************************************************************************)
(* frame_alloc() called by two callers whose steps interleave: the boot    *)
(* path and an interrupt handler.  get_fallocator() locks the Mutex of     *)
(* FALLOCATOR, spinning while it is held; alloc() runs on the guard; the   *)
(* guard is dropped, releasing the Mutex, when frame_alloc returns.  Each  *)
(* read and each write of the cursor is a step of its own.                 *)
(***************************************************************************)
\* Mutant of can_lock: the Mutex is handed out while it is held.
can_lock_while_held(l) == TRUE

\* Mutex::lock gets past its spin loop only when nobody holds the Mutex
can_lock(l) == l = None

\* Allocators of 1..MaxPages frames, none or one of them protected.
LockProtected ==
    { << <<0, 0>>, <<0, 0>> >>,
      << <<2 * PAGE_SIZE, 2 * PAGE_SIZE>>, <<0, 0>> >> }

InitLock ==
    /\ \E n \in 1..MaxPages, prot \in LockProtected :
        LET r == new(FramesMap(n), prot) IN
        /\ mem_regions = FramesMap(n)
        /\ protected_regions = prot
        /\ FALLOCATOR = r.allocator
        /\ free_region = r.region
    /\ issued = << >>
    /\ freed = {}
    /\ ret = None
    /\ halted = ""
    /\ PagingIdle /\ HeapIdle

\* What a step of caller c leaves alone.
LockFrame ==
    UNCHANGED << mem_regions, protected_regions, free_region, freed, ret,
                 pt_mem, pt4, op, calls, boot >>

\* frame_alloc() is called
Call(c) ==
    /\ halted = ""
    /\ callers[c].pc = "idle"
    /\ callers' = [callers EXCEPT ![c].pc = "lock"]
    /\ UNCHANGED << FALLOCATOR, issued, halted, lock >>
    /\ LockFrame
    /\ UNCHANGED hvars

\* get_fallocator(): FALLOCATOR.as_ref().unwrap().lock()
Lock(c) ==
    /\ halted = ""
    /\ callers[c].pc = "lock"
    /\ can_lock(lock)
    /\ lock' = Some(c)
    /\ callers' = [callers EXCEPT ![c].pc = "next_page"]
    /\ UNCHANGED << FALLOCATOR, issued, halted >>
    /\ LockFrame
    /\ UNCHANGED hvars

\* next_page: if self.start >= self.end { return None }; let addr = self.start
\* (alloc's expect("Out of memory") panics on None)
NextPageRead(c) ==
    /\ halted = ""
    /\ callers[c].pc = "next_page"
    /\ LET self == unwrap(FALLOCATOR) IN
       IF self.start >= self.end
       THEN /\ halted' = "Out of memory"
            /\ UNCHANGED callers
       ELSE /\ callers' = [callers EXCEPT ![c].pc = "advance_load",
                                          ![c].page = Some(self.start)]
            /\ UNCHANGED halted
    /\ UNCHANGED << FALLOCATOR, issued, lock >>
    /\ LockFrame
    /\ UNCHANGED hvars

\* next_page: self.start += PAGE_SIZE, the read
AdvanceLoad(c) ==
    /\ halted = ""
    /\ callers[c].pc = "advance_load"
    /\ callers' = [callers EXCEPT ![c].pc = "advance_store",
                                  ![c].tmp = unwrap(FALLOCATOR).start]
    /\ UNCHANGED << FALLOCATOR, issued, halted, lock >>
    /\ LockFrame
    /\ UNCHANGED hvars

\* next_page: self.start += PAGE_SIZE, the write; Some(Frame::containing(addr))
AdvanceStore(c) ==
    /\ halted = ""
    /\ callers[c].pc = "advance_store"
    /\ FALLOCATOR' = Some([unwrap(FALLOCATOR) EXCEPT
                              !.start = callers[c].tmp + PAGE_SIZE])
    /\ callers' = [callers EXCEPT
                      ![c].pc = "verify",
                      ![c].page = Some(containing(unwrap(callers[c].page))),
                      ![c].advanced = @ + 1]
    /\ UNCHANGED << issued, halted, lock >>
    /\ LockFrame
    /\ UNCHANGED hvars

\* alloc: the loop over the protected regions; continue 'verify_frame, or
\* return next_page
Verify(c) ==
    /\ halted = ""
    /\ callers[c].pc = "verify"
    /\ callers' = [callers EXCEPT
                      ![c].pc = IF is_protected(unwrap(FALLOCATOR),
                                                unwrap(callers[c].page))
                                THEN "next_page" ELSE "unlock"]
    /\ UNCHANGED << FALLOCATOR, issued, halted, lock >>
    /\ LockFrame
    /\ UNCHANGED hvars

\* frame_alloc returns the Frame; the MutexGuard is dropped
Unlock(c) ==
    /\ halted = ""
    /\ callers[c].pc = "unlock"
    /\ lock' = None
    /\ issued' = Append(issued, unwrap(callers[c].page))
    /\ callers' = [callers EXCEPT
                      ![c].pc = "idle",
                      ![c].page = None,
                      ![c].got = Append(@, unwrap(callers[c].page))]
    /\ UNCHANGED << FALLOCATOR, halted >>
    /\ LockFrame
    /\ UNCHANGED hvars

NextLock ==
    \E c \in Callers :
        \/ Call(c)
        \/ Lock(c)
        \/ NextPageRead(c)
        \/ AdvanceLoad(c)
        \/ AdvanceStore(c)
        \/ Verify(c)
        \/ Unlock(c)

SpecLock == InitLock /\ [][NextLock]_vars

(***************************************************************************)
(* kstart (arch/x86/mod.rs) up to kmain: frame_allocator::initialize, the  *)
(* first frame_alloc and free_pages it prints, then paging::initialize     *)
(* (PT4::new, the 1 GiB identity mapping, the heap pages, activate), then  *)
(* the rest of the initialization, which does not touch the page tables.   *)
(* boot.pc names the call kstart makes next, boot.i is the loop counter of *)
(* paging::initialize.                                                     *)
(***************************************************************************)
\* Mutant of heap_addr: the index is not scaled by the page size.
heap_addr_unscaled(i) == WrappingAdd(ToBits(i), HEAP_START)

\* let addr = i * PAGE_SIZE + HEAP_START
heap_addr(i) == WrappingAdd(ToBits(i * PAGE_SIZE), HEAP_START)

\* Mutant of initialize_next: the table is activated before the heap is
\* mapped.
initialize_next_activate_early(b) ==
    CASE b.pc = "PT4::new" -> [b EXCEPT !.pc = "map_to_1g"]
      [] b.pc = "map_to_1g" -> [b EXCEPT !.pc = "activate"]
      [] b.pc = "activate" -> [b EXCEPT !.pc = "map_4k", !.i = 0]
      [] b.pc = "map_4k" ->
            IF b.i + 1 < HEAP_SIZE \div PAGE_SIZE
            THEN [b EXCEPT !.i = b.i + 1]
            ELSE [b EXCEPT !.pc = "return", !.i = b.i + 1]

\* The control flow of paging::initialize: the position after the call at
\* position b.pc has returned.
initialize_next(b) ==
    CASE b.pc = "PT4::new" -> [b EXCEPT !.pc = "map_to_1g"]
      [] b.pc = "map_to_1g" ->
            IF 0 < HEAP_SIZE \div PAGE_SIZE
            THEN [b EXCEPT !.pc = "map_4k", !.i = 0]
            ELSE [b EXCEPT !.pc = "activate"]
      [] b.pc = "map_4k" ->
            IF b.i + 1 < HEAP_SIZE \div PAGE_SIZE
            THEN [b EXCEPT !.i = b.i + 1]
            ELSE [b EXCEPT !.pc = "activate", !.i = b.i + 1]
      [] b.pc = "activate" -> [b EXCEPT !.pc = "return"]

\* Memory maps: no free entry; or one free region of n pages from page 1
\* on, with too few frames for the boot, one too few, just enough, or more.
BootFrames == {0, 3, 10, 263, 264, 265}

BootInputs ==
    { << [base_addr |-> 0, length |-> PAGE_SIZE, ty |-> "Reserved"] >> }
    \cup { FramesMap(n) : n \in BootFrames }

\* The kernel image occupies pages 1 and 2; the multiboot data page 0.
BootProtected == << <<PAGE_SIZE, 3 * PAGE_SIZE - 1>>, <<0, MASK>> >>

InitBoot ==
    /\ mem_regions \in BootInputs
    /\ protected_regions = BootProtected
    /\ FALLOCATOR = None
    /\ free_region = None
    /\ issued = << >>
    /\ freed = {}
    /\ ret = None
    /\ halted = ""
    /\ PagingIdle /\ HeapIdle

\* kstart moves on to position b unless the call panicked.
Proceed(panic, b) ==
    /\ boot' = IF panic = "" THEN b ELSE boot
    /\ UNCHANGED << calls, lock, callers >>

\* frame_allocator::initialize(mmap, protected_regions)
KStart_initialize ==
    /\ halted = ""
    /\ boot.pc = "kstart"
    /\ LET r == new(mem_regions, protected_regions) IN
        /\ halted' = r.panic
        /\ FALLOCATOR' = r.allocator
        /\ free_region' = r.region
        /\ Proceed(r.panic, [boot EXCEPT !.pc = "frame_alloc"])
    /\ op' = Some([name |-> "frame_allocator::initialize"])
    /\ UNCHANGED << mem_regions, protected_regions, issued, freed, ret,
                    pt_mem, pt4 >>
    /\ UNCHANGED hvars

\* println!("first free page 0x{:x}", frame_alloc().addr())
KStart_frame_alloc ==
    /\ halted = ""
    /\ boot.pc = "frame_alloc"
    /\ LET a == frame_alloc(Machine) IN
        /\ Commit(a.m)
        /\ Proceed(a.m.panic, [boot EXCEPT !.pc = "free_pages"])
    /\ op' = Some([name |-> "frame_alloc"])
    /\ UNCHANGED pt4
    /\ UNCHANGED hvars

\* let free_pages = get_fallocator().free_pages()
KStart_free_pages ==
    /\ halted = ""
    /\ boot.pc = "free_pages"
    /\ LET r == free_pages(unwrap(FALLOCATOR)) IN
       \E overflow_checks \in (IF r.overflow THEN BOOLEAN ELSE {FALSE}) :
        /\ halted' = IF overflow_checks
                     THEN "attempt to subtract with overflow" ELSE ""
        /\ ret' = IF overflow_checks THEN None
                  ELSE Some([op |-> "free_pages", val |-> r.val])
        /\ Proceed(halted', [boot EXCEPT !.pc = "PT4::new"])
    /\ op' = Some([name |-> "free_pages"])
    /\ UNCHANGED << mem_regions, protected_regions, FALLOCATOR, free_region,
                    issued, freed, pt_mem, pt4 >>
    /\ UNCHANGED hvars

\* paging::initialize: let mut pt4 = PT4::new()
Paging_PT4_new ==
    /\ halted = ""
    /\ boot.pc = "PT4::new"
    /\ LET n == PageTable_new(Machine) IN
        /\ Commit(n.m)
        /\ pt4' = n.pt
        /\ Proceed(n.m.panic, initialize_next(boot))
    /\ op' = Some([name |-> "PT4::new"])
    /\ UNCHANGED hvars

\* paging::initialize: pt4.map_to_1g(0, 0, NONE)
Paging_map_to_1g ==
    /\ halted = ""
    /\ boot.pc = "map_to_1g"
    /\ Commit(map_to_1g(Machine, unwrap(pt4), {}, {}, NONE))
    /\ Proceed(halted', initialize_next(boot))
    /\ op' = Some([name |-> "map_to_1g", vaddr |-> {}, paddr |-> {},
                   flags |-> NONE])
    /\ UNCHANGED pt4
    /\ UNCHANGED hvars

\* paging::initialize: pt4.map_4k(addr, WRITE), one turn of the loop
Paging_map_4k ==
    /\ halted = ""
    /\ boot.pc = "map_4k"
    /\ Commit(map_4k(Machine, unwrap(pt4), heap_addr(boot.i), WRITE))
    /\ Proceed(halted', initialize_next(boot))
    /\ op' = Some([name |-> "map_4k", vaddr |-> heap_addr(boot.i),
                   flags |-> WRITE])
    /\ UNCHANGED pt4
    /\ UNCHANGED hvars

\* paging::initialize: pt4.activate() (mov cr3)
Paging_activate ==
    /\ halted = ""
    /\ boot.pc = "activate"
    /\ boot' = [initialize_next(boot) EXCEPT !.cr3 = pt4,
                                             !.activations = @ + 1]
    /\ op' = Some([name |-> "activate"])
    /\ UNCHANGED << mem_regions, protected_regions, FALLOCATOR, free_region,
                    issued, freed, ret, halted >>
    /\ UNCHANGED << pt_mem, pt4, calls, lock, callers >>
    /\ UNCHANGED hvars

\* interrupts, pic, gdt, tss and syscall initialize; main::kmain()
KStart_rest ==
    /\ halted = ""
    /\ boot.pc = "return"
    /\ boot' = [boot EXCEPT !.pc = "kmain"]
    /\ op' = Some([name |-> "kmain"])
    /\ UNCHANGED << mem_regions, protected_regions, FALLOCATOR, free_region,
                    issued, freed, ret, halted >>
    /\ UNCHANGED << pt_mem, pt4, calls, lock, callers >>
    /\ UNCHANGED hvars

NextBoot ==
    \/ KStart_initialize
    \/ KStart_frame_alloc
    \/ KStart_free_pages
    \/ Paging_PT4_new
    \/ Paging_map_to_1g
    \/ Paging_map_4k
    \/ Paging_activate
    \/ KStart_rest

SpecBoot == InitBoot /\ [][NextBoot]_vars

(***************************************************************************)
(* The chains of map_to_4k, map_to_2m and map_to_1g step by step: each     *)
(* test of an entry, each frame_alloc, each clear and each store to an     *)
(* entry is a step.  During a call op holds its arguments and its locals:  *)
(* pc, the statement it executes next; table and LEVEL, the table the      *)
(* chain has reached; stop, the level of the final map_mem; pt, the        *)
(* *mut PageTable that PageTable::new works on; mark, the number of frames *)
(* issued when get_new_table was entered.  A frame is in pt_mem from the   *)
(* moment Frame::clear has filled it with zeros; what a frame holds before *)
(* that is not known.                                                      *)
(***************************************************************************)
get_pt_index(LEVEL, vaddr) ==
    CASE LEVEL = 4 -> get_pt4_index(vaddr)
      [] LEVEL = 3 -> get_pt3_index(vaddr)
      [] LEVEL = 2 -> get_pt2_index(vaddr)
      [] LEVEL = 1 -> get_pt1_index(vaddr)

\* The level of the table in which each operation writes its mapping.
stop_level(name) ==
    CASE name = "map_to_4k" -> 1
      [] name = "map_to_2m" -> 2
      [] name = "map_to_1g" -> 3

\* Mutant of new_table_next: the pointer is installed before the frame is
\* cleared.
new_table_next_install_first(pc) ==
    CASE pc = "frame_alloc" -> "map_table"
      [] pc = "map_table" -> "clear"
      [] pc = "clear" -> "get_table_mut"

\* The order of the statements of get_new_table's else branch and of
\* PageTable::new: frame_alloc(), frame.clear(), self.map_table(index, pt),
\* self.get_table_mut(index).unwrap()
new_table_next(pc) ==
    CASE pc = "frame_alloc" -> "clear"
      [] pc = "clear" -> "map_table"
      [] pc = "map_table" -> "get_table_mut"

WalkVAddrs == { {}, {0, 12}, {30} }

WalkNames == {"map_to_4k", "map_to_2m", "map_to_1g"}

\* A call of the chain is in progress.
Walking == op # None /\ unwrap(op).name \in WalkNames /\ unwrap(op).pc # "return"

\* What a step of the chain leaves alone besides the tables and the allocator.
WalkFrame ==
    UNCHANGED << mem_regions, protected_regions, free_region, freed, ret,
                 pt4, boot, lock, callers >>

\* The chain moves on to the table at address t, one level down.
Descend(w, t) ==
    [w EXCEPT !.table = t,
              !.LEVEL = w.LEVEL - 1,
              !.pt = None,
              !.pc = IF w.LEVEL - 1 = w.stop THEN "map_mem" ELSE "get_new_table"]

\* pt4.map_to_..(vaddr, paddr, flags): self.get_mut()
Walk_call ==
    /\ halted = ""
    /\ pt4 # None
    /\ ~Walking
    /\ calls < MaxCalls
    /\ \E name \in WalkNames, v \in WalkVAddrs :
        op' = Some([name |-> name, vaddr |-> v, paddr |-> {13}, flags |-> WRITE,
                    pc |-> "get_new_table", table |-> unwrap(pt4), LEVEL |-> 4,
                    stop |-> stop_level(name), pt |-> None,
                    mark |-> Len(issued)])
    /\ calls' = calls + 1
    /\ UNCHANGED << FALLOCATOR, issued, halted, pt_mem >>
    /\ WalkFrame
    /\ UNCHANGED hvars

\* get_new_table: if self.entries[index].present() { get_table_mut(index)
\* .expect("Memory already mapped to") } else ..
Walk_get_new_table ==
    /\ halted = ""
    /\ Walking
    /\ unwrap(op).pc = "get_new_table"
    /\ LET w == unwrap(op)
           index == get_pt_index(w.LEVEL, w.vaddr)
           t == get_table_mut(pt_mem, w.table, w.LEVEL, index)
       IN IF present(Entry(pt_mem, w.table, index))
          THEN IF t = None
               THEN halted' = "Memory already mapped to" /\ UNCHANGED op
               ELSE op' = Some(Descend(w, unwrap(t))) /\ UNCHANGED halted
          ELSE /\ op' = Some([w EXCEPT !.pc = "frame_alloc",
                                       !.mark = Len(issued)])
               /\ UNCHANGED halted
    /\ UNCHANGED << FALLOCATOR, issued, pt_mem, calls >>
    /\ WalkFrame
    /\ UNCHANGED hvars

\* PageTable::new: let mut frame = frame_alloc()
Walk_frame_alloc ==
    /\ halted = ""
    /\ Walking
    /\ unwrap(op).pc = "frame_alloc"
    /\ LET a == frame_alloc(Machine) IN
        /\ FALLOCATOR' = Some(a.m.fa)
        /\ issued' = a.m.issued
        /\ halted' = a.m.panic
        /\ op' = IF a.frame = None THEN op
                 ELSE Some([unwrap(op) EXCEPT
                               !.pt = Some(addr(unwrap(a.frame))),
                               !.pc = new_table_next("frame_alloc")])
    /\ UNCHANGED << pt_mem, calls >>
    /\ WalkFrame
    /\ UNCHANGED hvars

\* PageTable::new: frame.clear()
Walk_clear ==
    /\ halted = ""
    /\ Walking
    /\ unwrap(op).pc = "clear"
    /\ pt_mem' = clear(pt_mem, containing(unwrap(unwrap(op).pt)))
    /\ op' = Some([unwrap(op) EXCEPT !.pc = new_table_next("clear")])
    /\ UNCHANGED << FALLOCATOR, issued, halted, calls >>
    /\ WalkFrame
    /\ UNCHANGED hvars

\* get_new_table: self.map_table(index, pt)
Walk_map_table ==
    /\ halted = ""
    /\ Walking
    /\ unwrap(op).pc = "map_table"
    /\ LET w == unwrap(op) IN
        /\ pt_mem' = map_table(pt_mem, w.table,
                               get_pt_index(w.LEVEL, w.vaddr), unwrap(w.pt))
        /\ op' = Some([w EXCEPT !.pc = new_table_next("map_table")])
    /\ UNCHANGED << FALLOCATOR, issued, halted, calls >>
    /\ WalkFrame
    /\ UNCHANGED hvars

\* get_new_table: self.get_table_mut(index).unwrap()
Walk_get_table_mut ==
    /\ halted = ""
    /\ Walking
    /\ unwrap(op).pc = "get_table_mut"
    /\ LET w == unwrap(op)
           t == get_table_mut(pt_mem, w.table, w.LEVEL,
                              get_pt_index(w.LEVEL, w.vaddr))
       IN op' = Some(Descend(w, unwrap(t)))
    /\ UNCHANGED << FALLOCATOR, issued, halted, pt_mem, calls >>
    /\ WalkFrame
    /\ UNCHANGED hvars

\* .map_mem(index, paddr, flags), the end of the chain
Walk_map_mem ==
    /\ halted = ""
    /\ Walking
    /\ unwrap(op).pc = "map_mem"
    /\ LET w == unwrap(op) IN
        /\ pt_mem' = map_mem(pt_mem, w.table, w.LEVEL,
                             get_pt_index(w.LEVEL, w.vaddr), w.paddr, w.flags)
        /\ op' = Some([w EXCEPT !.pc = "return"])
    /\ UNCHANGED << FALLOCATOR, issued, halted, calls >>
    /\ WalkFrame
    /\ UNCHANGED hvars

NextWalk ==
    \/ PT4_new
    \/ Walk_call
    \/ Walk_get_new_table
    \/ Walk_frame_alloc
    \/ Walk_clear
    \/ Walk_map_table
    \/ Walk_get_table_mut
    \/ Walk_map_mem

SpecWalk == InitPaging /\ [][NextWalk]_vars

(***************************************************************************)
(* frame_alloc() called by the boot path and by an interrupt handler on    *)
(* one CPU: the handler may be entered between any two steps of the boot   *)
(* path, and the boot path resumes only when the handler has returned.     *)
(* Nothing in frame_alloc or get_fallocator masks interrupts.  A caller    *)
(* spinning in Mutex::lock takes no step until the Mutex is free.          *)
(***************************************************************************)
\* The CPU executes caller c: the handler whenever it has been entered, the
\* boot path otherwise.
Runs(c) == c = "irq" \/ callers["irq"].pc = "idle"

NextIrq ==
    \E c \in Callers :
        \/ Runs(c) /\ Call(c)
        \/ Runs(c) /\ Lock(c)
        \/ Runs(c) /\ NextPageRead(c)
        \/ Runs(c) /\ AdvanceLoad(c)
        \/ Runs(c) /\ AdvanceStore(c)
        \/ Runs(c) /\ Verify(c)
        \/ Runs(c) /\ Unlock(c)

SpecIrq == InitLock /\ [][NextIrq]_vars

(***************************************************************************)
(* frame_allocator::initialize run again while an allocator exists:        *)
(* core::mem::replace stores a newly constructed allocator in FALLOCATOR   *)
(* and drops the old one.  `calls' counts the repeated initializations.    *)
(***************************************************************************)
MaxReinits == 1

\* Mutant of Reinitialize: an existing allocator is left in place.
Reinitialize_keeps_allocator ==
    /\ halted = ""
    /\ FALLOCATOR # None
    /\ calls < MaxReinits
    /\ calls' = calls + 1
    /\ ret' = None
    /\ UNCHANGED << mem_regions, protected_regions, FALLOCATOR, free_region,
                    issued, freed, halted >>
    /\ UNCHANGED << pt_mem, pt4, op, boot, lock, callers >>
    /\ UNCHANGED hvars

\* frame_allocator::initialize(mem_regions, protected_regions), once more
Reinitialize ==
    /\ halted = ""
    /\ FALLOCATOR # None
    /\ calls < MaxReinits
    /\ calls' = calls + 1
    /\ LET r == new(mem_regions, protected_regions) IN
        /\ halted' = r.panic
        /\ FALLOCATOR' = r.allocator
        /\ free_region' = r.region
    /\ ret' = None
    /\ UNCHANGED << mem_regions, protected_regions, issued, freed >>
    /\ UNCHANGED << pt_mem, pt4, op, boot, lock, callers >>
    /\ UNCHANGED hvars

NextReinit == Initialize \/ Reinitialize \/ FrameAlloc \/ FrameFree \/ FreePages

\* The maps of one entry that starts at address 0, with one protected region
\* (given twice).
ReinitInputs ==
    { in \in Inputs :
        /\ Len(in[1]) = 1
        /\ in[1][1].base_addr = 0
        /\ in[2][1] = in[2][2] }

InitReinit == Init /\ << mem_regions, protected_regions >> \in ReinitInputs

SpecReinit == InitReinit /\ [][NextReinit]_vars

(***************************************************************************)
(* Requests to the kernel heap through the global allocator, in any order: *)
(* alloc with a Layout (a size and a power-of-two alignment), dealloc of a *)
(* block alloc returned.  Each call locks the Mutex for its duration.      *)
(***************************************************************************)
MaxHeapCalls == 3

\* Sizes 1, 8, 1 MiB, 1 MiB + 1 and 32 TiB; alignments 1, 4 KiB and 2^47.
HeapSizes == { {0}, {3}, {20}, {0, 20}, {45} }
HeapAligns == { {0}, {12}, {47} }
Layouts == [size : HeapSizes, align : HeapAligns]

\* The calls made so far: one per block, one more per block given back.
HeapCalls ==
    Len(blocks) + Cardinality({ i \in 1..Len(blocks) : ~blocks[i].live })

InitHeap == NoAllocator /\ PagingIdle /\ HeapIdle

\* ALLOCATOR.alloc(layout)
HeapAlloc ==
    /\ halted = ""
    /\ HeapCalls < MaxHeapCalls
    /\ \E layout \in Layouts :
        LET r == GlobalAllocator_alloc(ALLOCATOR, layout) IN
        \E overflow_checks \in (IF r.overflow THEN BOOLEAN ELSE {FALSE}) :
            IF overflow_checks
            THEN /\ halted' = "attempt to add with overflow"
                 /\ UNCHANGED hvars
            ELSE /\ halted' = ""
                 /\ ALLOCATOR' = r.self
                 /\ blocks' = Append(blocks, [ptr |-> r.ptr, layout |-> layout,
                                              live |-> TRUE])
    /\ UNCHANGED << mem_regions, protected_regions, FALLOCATOR, free_region,
                    issued, freed, ret >>
    /\ UNCHANGED pvars

\* ALLOCATOR.dealloc(ptr, layout), ptr a block alloc returned with layout
HeapDealloc ==
    /\ halted = ""
    /\ HeapCalls < MaxHeapCalls
    /\ \E i \in 1..Len(blocks) :
        /\ blocks[i].live
        /\ blocks[i].ptr # {}
        /\ ALLOCATOR' = BumpAllocator_dealloc(ALLOCATOR, blocks[i].ptr,
                                              blocks[i].layout)
        /\ blocks' = [blocks EXCEPT ![i].live = FALSE]
    /\ UNCHANGED << mem_regions, protected_regions, FALLOCATOR, free_region,
                    issued, freed, ret, halted >>
    /\ UNCHANGED pvars

NextHeap == HeapAlloc \/ HeapDealloc

SpecHeap == InitHeap /\ [][NextHeap]_vars

(***************************************************************************)
(* The kernel from the entry of kstart on: the boot sequence, then, in     *)
(* kmain, requests to the kernel heap.                                     *)
(***************************************************************************)
Kmain_alloc == boot.pc = "kmain" /\ HeapAlloc

Kmain_dealloc == boot.pc = "kmain" /\ HeapDealloc

NextKernel ==
    \/ KStart_initialize
    \/ KStart_frame_alloc
    \/ KStart_free_pages
    \/ Paging_PT4_new
    \/ Paging_map_to_1g
    \/ Paging_map_4k
    \/ Paging_activate
    \/ KStart_rest
    \/ Kmain_alloc
    \/ Kmain_dealloc

SpecKernel == InitBoot /\ [][NextKernel]_vars


(***************************************************************************)
(* Helpers of the properties.                                              *)
(***************************************************************************)
Issued == { issued[i] : i \in 1..Len(issued) }

\* The bytes first..last of a MemRegion meet the bytes of the page of `frame`.
Intersects(frame, region) ==
    /\ region[1] <= region[2]
    /\ region[1] <= addr(frame) + PAGE_SIZE - 1
    /\ region[2] >= addr(frame)

\* The page of `frame` lies wholly inside the bytes first..last of entry r.
WholeIn(frame, r) ==
    /\ MMapEntry_start(r) <= addr(frame)
    /\ addr(frame) + PAGE_SIZE - 1 <= MMapEntry_end(r)

(***************************************************************************)
(* C1: the Frames returned by the successful alloc() calls on one         *)
(* allocator are pairwise distinct: no frame index is returned twice.      *)
(***************************************************************************)
C1_Uniqueness ==
    \A i, j \in 1..Len(issued) : i # j => issued[i] # issued[j]

\* Two frames have been issued.
C1_Witness == Len(issued) >= 2 /\ halted = ""

(***************************************************************************)
(* C2: the bytes [f.addr(), f.addr() + PAGE_SIZE) of every returned Frame  *)
(* meet no configured protected region (first and last byte inclusive),    *)
(* wherever the region starts or ends.                                     *)
(***************************************************************************)
C2_ProtectedExclusion ==
    \A f \in Issued :
        \A k \in 1..Len(protected_regions) :
            ~Intersects(f, protected_regions[k])

\* A frame was issued after alloc() skipped the page in which a protected
\* region that starts in mid-page and ends in mid-page lies.
C2_Witness ==
    /\ Len(issued) >= 1
    /\ free_region # None
    /\ \E k \in 1..Len(protected_regions) :
        LET region == protected_regions[k] IN
        /\ region[1] % PAGE_SIZE # 0
        /\ region[2] % PAGE_SIZE # 0
        /\ region[1] < region[2]
        /\ WholeIn(containing(region[1]), unwrap(free_region))
        /\ containing(region[2]) < issued[Len(issued)]

(***************************************************************************)
(* C3: every returned Frame is page-aligned and its bytes lie inside the   *)
(* free region new() selected: region.start <= f.addr() and                *)
(* f.addr() + PAGE_SIZE - 1 <= region.end.                                 *)
(***************************************************************************)
C3_InsideFreeRegion ==
    \A f \in Issued :
        /\ addr(f) % PAGE_SIZE = 0
        /\ free_region # None
        /\ WholeIn(f, unwrap(free_region))

\* A frame was issued from a region that starts and ends in mid-page.
C3_Witness ==
    /\ Len(issued) >= 1
    /\ free_region # None
    /\ MMapEntry_start(unwrap(free_region)) % PAGE_SIZE # 0
    /\ (MMapEntry_end(unwrap(free_region)) + 1) % PAGE_SIZE # 0

(***************************************************************************)
(* More helpers of the properties.                                         *)
(***************************************************************************)
\* The pages that lie wholly inside entry r.
WholePages(r) == { p \in 0..containing(MMapEntry_end(r)) : WholeIn(p, r) }

\* No protected region has a byte in common with entry r.
NoProtectedIn(r) ==
    \A k \in 1..Len(protected_regions) :
        \/ protected_regions[k][1] > protected_regions[k][2]
        \/ protected_regions[k][2] < MMapEntry_start(r)
        \/ protected_regions[k][1] > MMapEntry_end(r)

\* The number of alloc() calls that succeed from allocator state `self`.
RECURSIVE Remaining(_)
Remaining(self) ==
    LET r == alloc(self) IN
    IF r.panic # "" THEN 0 ELSE 1 + Remaining(r.self)

(***************************************************************************)
(* C4: over a free region of exactly N whole pages that no protected       *)
(* region overlaps, the first N alloc() calls return N frames, call N + 1  *)
(* fails with "Out of memory", and so would every later call.              *)
(***************************************************************************)
C4_ExactlyN ==
    (free_region # None /\ NoProtectedIn(unwrap(free_region))) =>
        LET N == Cardinality(WholePages(unwrap(free_region))) IN
        /\ Len(issued) <= N
        /\ halted = "Out of memory" =>
            /\ Len(issued) = N
            /\ alloc(unwrap(FALLOCATOR)).panic = "Out of memory"

(***************************************************************************)
(* C5: with no protected region in the way, the frames alloc() issues      *)
(* before exhaustion are exactly the pages of the working window, from the *)
(* first page at or after region.start to the last page at or before       *)
(* region.end, that last page included.                                    *)
(***************************************************************************)
C5_WindowIssued ==
    (/\ free_region # None
     /\ NoProtectedIn(unwrap(free_region))
     /\ halted = "Out of memory") =>
        Issued = WholePages(unwrap(free_region))

(***************************************************************************)
(* C6: the region new() selects is an entry of the map whose type is Free, *)
(* and no Free entry of the map is larger; an entry of another type is     *)
(* never selected, however large.                                          *)
(***************************************************************************)
C6_LargestFree ==
    free_region # None =>
        LET r == unwrap(free_region) IN
        /\ r.ty = "Free"
        /\ \E i \in 1..Len(mem_regions) : mem_regions[i] = r
        /\ \A i \in 1..Len(mem_regions) :
            mem_regions[i].ty = "Free" => mem_regions[i].length <= r.length

\* new() has selected a Free entry from a map that also holds a smaller Free
\* entry and a larger entry of another type.
C6_Witness ==
    /\ free_region # None
    /\ FALLOCATOR # None
    /\ \E i, j \in 1..Len(mem_regions) :
        /\ mem_regions[i].ty \notin {"Free"}
        /\ mem_regions[i].length > unwrap(free_region).length
        /\ mem_regions[j].ty = "Free"
        /\ mem_regions[j].length < unwrap(free_region).length

(***************************************************************************)
(* C7: when the map holds no entry of type Free (the empty map included),  *)
(* construction fails with "No usable memory": no allocator is installed   *)
(* and no frame is ever issued.                                            *)
(***************************************************************************)
NoFreeEntry == \A i \in 1..Len(mem_regions) : mem_regions[i].ty # "Free"

C7_NoUsableMemory ==
    [][NoFreeEntry =>
        /\ halted' = "No usable memory"
        /\ FALLOCATOR' = None
        /\ issued' = << >>]_vars

\* Construction has failed on a map of entries none of which is Free.
C7_Witness ==
    /\ Len(mem_regions) >= 2
    /\ NoFreeEntry
    /\ halted = "No usable memory"
    /\ FALLOCATOR = None

(***************************************************************************)
(* C8: free(frame) leaves the cursor, the limit and the protected regions  *)
(* unchanged, and no later alloc() returns a frame passed to free().       *)
(***************************************************************************)
C8_FreeIsNoOp ==
    [][/\ freed' # freed => FALLOCATOR' = FALLOCATOR
       /\ issued' # issued => issued'[Len(issued')] \notin freed]_vars

\* alloc() has returned a frame after another frame was passed to free().
C8_Witness ==
    /\ freed # {}
    /\ ret # None
    /\ unwrap(ret).op = "alloc"

(***************************************************************************)
(* C9 as stated: free_pages() returns exactly (limit - cursor) /           *)
(* PAGE_SIZE, and 0 once cursor = limit.                                   *)
(***************************************************************************)
C9_Original ==
    (ret # None /\ unwrap(ret).op = "free_pages") =>
        LET self == unwrap(FALLOCATOR) IN
        unwrap(ret).val = (self.end - self.start) \div PAGE_SIZE

(***************************************************************************)
(* C9 as amended: while cursor <= limit, free_pages() returns              *)
(* (limit - cursor) / PAGE_SIZE + 1, so 1 and not 0 once cursor = limit.   *)
(***************************************************************************)
C9_Amended ==
    (ret # None /\ unwrap(ret).op = "free_pages") =>
        LET self == unwrap(FALLOCATOR) IN
        /\ self.start <= self.end =>
            unwrap(ret).val = (self.end - self.start) \div PAGE_SIZE + 1
        /\ self.start = self.end => unwrap(ret).val = 1

\* free_pages() has returned on an allocator that issued frames and is now
\* exhausted.
C9_Witness ==
    /\ ret # None
    /\ unwrap(ret).op = "free_pages"
    /\ Len(issued) >= 2
    /\ unwrap(FALLOCATOR).start = unwrap(FALLOCATOR).end

(***************************************************************************)
(* C10: the value of free_pages() is at least the number of alloc() calls  *)
(* that can still succeed, and it does not increase across alloc() or      *)
(* free().                                                                 *)
(***************************************************************************)
C10_UpperBound ==
    [][(FALLOCATOR # None /\ FALLOCATOR' # None) =>
        /\ free_pages(unwrap(FALLOCATOR)).val >= Remaining(unwrap(FALLOCATOR))
        /\ free_pages(unwrap(FALLOCATOR')).val >= Remaining(unwrap(FALLOCATOR'))
        /\ free_pages(unwrap(FALLOCATOR')).val <= free_pages(unwrap(FALLOCATOR)).val]_vars

\* free_pages() has returned more than the number of frames still to come,
\* after an alloc() and a free(), protected pages lying ahead of the cursor.
C10_Witness ==
    /\ ret # None
    /\ unwrap(ret).op = "free_pages"
    /\ Len(issued) >= 1
    /\ freed # {}
    /\ Remaining(unwrap(FALLOCATOR)) >= 1
    /\ unwrap(ret).val > Remaining(unwrap(FALLOCATOR)) + 1

(***************************************************************************)
(* Helpers of the properties of paging.rs.                                 *)
(***************************************************************************)
\* A canonical address: bits 48..63 are copies of bit 47.
Canonical(v) == \A b \in 48..63 : (b \in v) <=> (47 \in v)

\* The address with its page offset cleared.
PageBase(v) == v \ (0..11)

\* (i4 << 39) | (i3 << 30) | (i2 << 21) | (i1 << 12)
Reconstruct(i1, i2, i3, i4) ==
    BitOr(BitOr(Shl(ToBits(i4), 39), Shl(ToBits(i3), 30)),
          BitOr(Shl(ToBits(i2), 21), Shl(ToBits(i1), 12)))

IndexQuery == op # None /\ unwrap(op).name = "get_pt_index"

(***************************************************************************)
(* C11, as stated: for every canonical address, lower or upper half, the   *)
(* four indices lie in 0..511 and the address rebuilt from them with a     *)
(* zero offset equals the page-aligned base of the address.                *)
(***************************************************************************)
C11_Original ==
    (IndexQuery /\ Canonical(unwrap(op).vaddr)) =>
        LET q == unwrap(op) IN
        /\ {q.i1, q.i2, q.i3, q.i4} \subseteq 0..(NUM_ENTRIES - 1)
        /\ Reconstruct(q.i1, q.i2, q.i3, q.i4) = PageBase(q.vaddr)

(***************************************************************************)
(* C11, amended: for every canonical address the four indices lie in       *)
(* 0..511 and the address rebuilt from them equals bits 12..47 of the      *)
(* address; that is the page-aligned base exactly when the address lies in *)
(* the lower half, an upper-half address losing its sign extension (bits   *)
(* 48..63).                                                                *)
(***************************************************************************)
C11_Amended ==
    (IndexQuery /\ Canonical(unwrap(op).vaddr)) =>
        LET q == unwrap(op)
            r == Reconstruct(q.i1, q.i2, q.i3, q.i4)
        IN /\ {q.i1, q.i2, q.i3, q.i4} \subseteq 0..(NUM_ENTRIES - 1)
           /\ r = PageBase(q.vaddr) \cap (0..47)
           /\ (r = PageBase(q.vaddr)) <=> (47 \notin q.vaddr)

\* An upper-half canonical address with an offset has been decomposed.
C11_Witness ==
    /\ IndexQuery
    /\ Canonical(unwrap(op).vaddr)
    /\ {0, 30, 47, 63} \subseteq unwrap(op).vaddr
    /\ unwrap(op).i4 >= 256
    /\ unwrap(op).i3 = 1

\* The last call of paging.rs was `name` and it returned (no panic).
Returned(name) == op # None /\ unwrap(op).name = name /\ halted = ""

\* The entries on the path of vaddr from the table at `root`: the entry of
\* each level 4, 3, .. down to the first entry that does not point to a
\* table, as [level, table, value].
RECURSIVE Path(_, _, _, _)
Path(mem, table, LEVEL, vaddr) ==
    LET index == CASE LEVEL = 4 -> get_pt4_index(vaddr)
                   [] LEVEL = 3 -> get_pt3_index(vaddr)
                   [] LEVEL = 2 -> get_pt2_index(vaddr)
                   [] LEVEL = 1 -> get_pt1_index(vaddr)
        value == Entry(mem, table, index)
        here == << [level |-> LEVEL, table |-> table, value |-> value] >>
    IN IF points_to_table(LEVEL, value)
       THEN here \o Path(mem, FromBits(get_addr(value)), LEVEL - 1, vaddr)
       ELSE here

\* The path of vaddr ends at a present terminal entry of level LEVEL that
\* holds paddr's address bits and exactly the flags fl.
EndsAt(path, LEVEL, paddr, fl) ==
    /\ Len(path) = 5 - LEVEL
    /\ \A k \in 1..(Len(path) - 1) :
        path[k].level = 5 - k /\ points_to_table(5 - k, path[k].value)
    /\ LET e == path[Len(path)] IN
        /\ e.level = LEVEL
        /\ present(e.value) /\ terminal(LEVEL, e.value)
        /\ get_addr(e.value) = BitAnd(paddr, PTE_ADDR_MASK)
        /\ flags(e.value) = fl
        /\ e.value = BitOr(get_addr(e.value), flags(e.value))

(***************************************************************************)
(* C12: after a successful map_to_4k(v, p, f) the walk from the root with  *)
(* v's indices passes table-pointing entries at levels 4, 3 and 2 and ends *)
(* at a level-1 terminal entry with address p & PTE_ADDR_MASK and flags f  *)
(* plus PRESENT; map_to_2m ends likewise at a level-2 entry and map_to_1g  *)
(* at a level-3 entry, both with HUGE set as well.                         *)
(***************************************************************************)
C12_WalkEndsAtMapping ==
    /\ Returned("map_to_4k") =>
        LET q == unwrap(op) IN
        EndsAt(Path(pt_mem, unwrap(pt4), 4, q.vaddr), 1, q.paddr,
               BitOr(q.flags, PRESENT))
    /\ Returned("map_to_2m") =>
        LET q == unwrap(op) IN
        EndsAt(Path(pt_mem, unwrap(pt4), 4, q.vaddr), 2, q.paddr,
               UNION {q.flags, PRESENT, HUGE})
    /\ Returned("map_to_1g") =>
        LET q == unwrap(op) IN
        EndsAt(Path(pt_mem, unwrap(pt4), 4, q.vaddr), 3, q.paddr,
               UNION {q.flags, PRESENT, HUGE})

\* A 4 KiB mapping of an upper-half address to an unaligned physical
\* address with flags has returned, after another mapping call.
C12_Witness ==
    /\ Returned("map_to_4k")
    /\ calls = 2
    /\ 63 \in unwrap(op).vaddr
    /\ unwrap(op).paddr = {0, 12, 13, 52}
    /\ unwrap(op).flags = UNION {WRITE, USER, NO_EXECUTE}

\* The last step was a call `name` of the facade (returned or panicked).
Called(name) ==
    /\ calls' = calls + 1
    /\ op' # None
    /\ unwrap(op').name = name

\* The walk of vaddr stops at a present huge entry of level LEVEL (3: a
\* 1 GiB mapping, 2: a 2 MiB mapping).
HoldsHuge(mem, root, vaddr, LEVEL) ==
    LET path == Path(mem, root, 4, vaddr)
        e == path[Len(path)]
    IN /\ e.level = LEVEL
       /\ can_be_huge(LEVEL)
       /\ present(e.value)
       /\ terminal(LEVEL, e.value)

(***************************************************************************)
(* C13: map_to_4k(v, ..) panics ("Memory already mapped to") and does not  *)
(* return when the level-3 entry on v's path holds a 1 GiB mapping or the  *)
(* level-2 entry holds a 2 MiB mapping; map_to_2m(v, ..) panics when the   *)
(* level-3 entry on v's path holds a 1 GiB mapping.                        *)
(***************************************************************************)
C13_HugeConflictPanics ==
    [][ /\ (/\ Called("map_to_4k")
            /\ \/ HoldsHuge(pt_mem, unwrap(pt4), unwrap(op').vaddr, 3)
               \/ HoldsHuge(pt_mem, unwrap(pt4), unwrap(op').vaddr, 2))
           => halted' = "Memory already mapped to"
        /\ (/\ Called("map_to_2m")
            /\ HoldsHuge(pt_mem, unwrap(pt4), unwrap(op').vaddr, 3))
           => halted' = "Memory already mapped to"
      ]_vars

\* map_to_4k has panicked on an address that lies in a 2 MiB mapping.
C13_Witness ==
    /\ op # None
    /\ unwrap(op).name = "map_to_4k"
    /\ halted = "Memory already mapped to"
    /\ HoldsHuge(pt_mem, unwrap(pt4), unwrap(op).vaddr, 2)

\* The tables of level LEVEL reachable from the root.
RECURSIVE TablesAt(_, _, _)
TablesAt(mem, root, LEVEL) ==
    IF LEVEL = 4 THEN {root}
    ELSE UNION { { FromBits(get_addr(mem[t][i])) :
                     i \in { j \in DOMAIN mem[t] :
                                points_to_table(LEVEL + 1, mem[t][j]) } } :
                 t \in TablesAt(mem, root, LEVEL + 1) }

\* The present terminal entries of level LEVEL: <<table, index>>.
Leaves(mem, root, LEVEL) ==
    { ti \in UNION { {t} \X DOMAIN mem[t] : t \in TablesAt(mem, root, LEVEL) } :
        LET value == mem[ti[1]][ti[2]] IN
        present(value) /\ terminal(LEVEL, value) }

(***************************************************************************)
(* C14: in every reachable tree every present entry that points to a       *)
(* next-level table has PRESENT, USER and WRITE set, whatever the flags of *)
(* the leaf mappings below it (a leaf mapped with no flags included); only *)
(* terminal entries restrict access.                                       *)
(***************************************************************************)
C14_TableEntriesPermissive ==
    pt4 # None =>
        \A LEVEL \in 2..4 :
            \A t \in TablesAt(pt_mem, unwrap(pt4), LEVEL) :
                \A i \in DOMAIN pt_mem[t] :
                    points_to_table(LEVEL, pt_mem[t][i]) =>
                        UNION {PRESENT, USER, WRITE} \subseteq flags(pt_mem[t][i])

\* A 4 KiB leaf mapped with no flags lies below three table entries.
C14_Witness ==
    /\ Returned("map_to_4k")
    /\ unwrap(op).flags = NONE
    /\ \E ti \in Leaves(pt_mem, unwrap(pt4), 1) :
        flags(pt_mem[ti[1]][ti[2]]) = PRESENT
    /\ Len(Path(pt_mem, unwrap(pt4), 4, unwrap(op).vaddr)) = 4

(***************************************************************************)
(* C15: a returning map_to_4k call allocates exactly one frame for each of *)
(* the levels 3, 2, 1 whose parent entry was absent, each becoming the     *)
(* table of that level on the path, and none for a level whose parent      *)
(* entry already pointed to a table, whose table it reuses; so a second    *)
(* page with the level-4, -3 and -2 indices of a mapped page allocates     *)
(* nothing and its leaf lies in the same level-1 table.                    *)
(***************************************************************************)
C15_OneFramePerAbsentLevel ==
    [][ (Called("map_to_4k") /\ halted' = "") =>
          LET v == unwrap(op').vaddr
              walk1 == Path(pt_mem, unwrap(pt4), 4, v)
              walk2 == Path(pt_mem', unwrap(pt4), 4, v)
          IN /\ Len(walk2) = 4
             /\ Len(issued') - Len(issued) = 4 - Len(walk1)
             /\ \A k \in 1..Len(walk1) : walk2[k].table = walk1[k].table
             /\ { walk2[k].table : k \in (Len(walk1) + 1)..4 }
                  = { addr(issued'[j]) : j \in (Len(issued) + 1)..Len(issued') }
      ]_vars

\* A second page has been mapped into the level-1 table of the first: the
\* root and three tables are all the frames issued.
C15_Witness ==
    /\ Returned("map_to_4k")
    /\ calls = 2
    /\ Len(issued) = 4
    /\ LET path == Path(pt_mem, unwrap(pt4), 4, unwrap(op).vaddr) IN
        /\ Len(path) = 4
        /\ Cardinality(DOMAIN pt_mem[path[4].table]) = 2

\* vaddr is mapped as a 4 KiB page: its walk ends at a present level-1 entry.
Mapped4k(mem, root, vaddr) ==
    LET path == Path(mem, root, 4, vaddr) IN
    Len(path) = 4 /\ present(path[4].value)

\* The table of level LEVEL on the path of vaddr.
TableOf(mem, root, vaddr, LEVEL) == Path(mem, root, 4, vaddr)[5 - LEVEL].table

\* Pairs of mapped 4 KiB pages lying in different 1 GiB regions.
GiBApart ==
    { vv \in MapVAddrs \X MapVAddrs :
        /\ Mapped4k(pt_mem, unwrap(pt4), vv[1])
        /\ Mapped4k(pt_mem, unwrap(pt4), vv[2])
        /\ Canonical(vv[1]) /\ Canonical(vv[2])
        /\ vv[1] \ (0..29) # vv[2] \ (0..29) }

(***************************************************************************)
(* C16, as stated: two 4 KiB pages mapped at addresses in disjoint 1 GiB   *)
(* regions are reached through different level-3 tables.                   *)
(***************************************************************************)
C16_Original ==
    pt4 # None =>
        \A vv \in GiBApart :
            TableOf(pt_mem, unwrap(pt4), vv[1], 3)
                # TableOf(pt_mem, unwrap(pt4), vv[2], 3)

(***************************************************************************)
(* C16, amended: two 4 KiB pages mapped at canonical addresses in disjoint *)
(* 1 GiB regions are reached through different level-2 tables; their       *)
(* level-3 tables are different frames exactly when the addresses differ   *)
(* in bits 39..47 (the level-4 index), pages of one 512 GiB region sharing *)
(* the level-3 table.                                                      *)
(***************************************************************************)
C16_Amended ==
    pt4 # None =>
        \A vv \in GiBApart :
            /\ TableOf(pt_mem, unwrap(pt4), vv[1], 2)
                 # TableOf(pt_mem, unwrap(pt4), vv[2], 2)
            /\ (TableOf(pt_mem, unwrap(pt4), vv[1], 3)
                  # TableOf(pt_mem, unwrap(pt4), vv[2], 3))
               <=> (vv[1] \cap (39..47) # vv[2] \cap (39..47))

\* Pages are mapped at 0 and at 1 GiB: one level-3 table, two level-2 tables.
C16_Witness ==
    /\ pt4 # None
    /\ halted = ""
    /\ << {}, {30} >> \in GiBApart
    /\ Cardinality(TablesAt(pt_mem, unwrap(pt4), 3)) = 1
    /\ Cardinality(TablesAt(pt_mem, unwrap(pt4), 2)) = 2

\* The tree reachable from the root: its tables and their contents.
Tree(mem, root) ==
    LET reach == UNION { TablesAt(mem, root, LEVEL) : LEVEL \in 1..4 } IN
    [t \in reach |-> mem[t]]

(***************************************************************************)
(* C17, as stated: when a facade mapping call (map_to_4k, map_to_2m,       *)
(* map_to_1g, map_4k) fails fatally, by conflict or by frame exhaustion    *)
(* part-way through the walk, the tree reachable from the root is the tree *)
(* before the call.                                                        *)
(***************************************************************************)
C17_AllOrNothing ==
    [][ (/\ \E name \in {"map_to_4k", "map_to_2m", "map_to_1g", "map_4k"} :
               Called(name)
         /\ halted' # "")
        => Tree(pt_mem', unwrap(pt4)) = Tree(pt_mem, unwrap(pt4)) ]_vars

\* The positions of a caller between taking and releasing the Mutex.
InCriticalSection(c) ==
    callers[c].pc \in {"next_page", "advance_load", "advance_store",
                       "verify", "unlock"}

\* The Frames the two callers received, boot's first.
Received == callers["boot"].got \o callers["irq"].got

(***************************************************************************)
(* C18: when the boot path and an interrupt handler call frame_alloc() in  *)
(* any interleaving, at most one of them at a time is between the read of  *)
(* the cursor and the release of the lock, no Frame is received twice (by  *)
(* the two callers or by one), and no advance is lost: the cursor stands   *)
(* PAGE_SIZE times the number of advances made past its initial value.     *)
(***************************************************************************)
C18_ExclusiveAdvance ==
    (FALLOCATOR # None /\ free_region # None) =>
        /\ \A c, d \in Callers :
            (InCriticalSection(c) /\ InCriticalSection(d)) => c = d
        /\ \A i, j \in 1..Len(Received) :
            Received[i] = Received[j] => i = j
        /\ unwrap(FALLOCATOR).start =
             addr(after(MMapEntry_start(unwrap(free_region))))
             + PAGE_SIZE * (callers["boot"].advanced + callers["irq"].advanced)

\* Both callers have received a Frame, and one waits for the lock while the
\* other is about to write the cursor.
C18_Witness ==
    /\ Len(callers["boot"].got) >= 1
    /\ Len(callers["irq"].got) >= 1
    /\ callers["boot"].pc = "advance_store"
    /\ callers["irq"].pc = "lock"
    /\ lock = Some("boot")

\* The address of heap page i, HEAP_START having no bit below bit 45.
HeapPage(i) == HEAP_START \cup Shl(ToBits(i), 12)

HeapPages == 0..(HEAP_SIZE \div PAGE_SIZE - 1)

\* The physical address vaddr translates to, walking from `root`: the
\* address bits of the terminal entry above the offset within its page.
Translate(mem, root, vaddr) ==
    LET path == Path(mem, root, 4, vaddr)
        e == path[Len(path)]
        offset == 0..(12 + 9 * (e.level - 1) - 1)
    IN IF present(e.value) /\ terminal(e.level, e.value)
       THEN Some((get_addr(e.value) \ offset) \cup (vaddr \cap offset))
       ELSE None

\* Entry 0 of the level-3 table of address 0 is a huge entry to address 0
\* with no flag but PRESENT and HUGE.
IdentityMapped ==
    LET path == Path(pt_mem, unwrap(pt4), 4, {}) IN
    /\ Len(path) = 2
    /\ path[2].level = 3
    /\ path[2].value = PRESENT \cup HUGE

\* Every mapping write of paging::initialize has been made.
Populated ==
    /\ pt4 # None
    /\ IdentityMapped
    /\ \A i \in HeapPages : Mapped4k(pt_mem, unwrap(pt4), HeapPage(i))

C19_State ==
    /\ boot.activations <= 1
    /\ boot.activations = 1 =>
        /\ FALLOCATOR # None
        /\ Populated
        /\ boot.cr3 = pt4
    /\ boot.pc \in {"return", "kmain"} => boot.activations = 1

C19_Step ==
    /\ boot'.activations # boot.activations =>
        /\ op = Some([name |-> "map_4k",
                      vaddr |-> HeapPage(HEAP_SIZE \div PAGE_SIZE - 1),
                      flags |-> WRITE])
        /\ pt_mem' = pt_mem
    /\ boot.activations = 1 => (pt_mem' = pt_mem /\ pt4' = pt4)

(***************************************************************************)
(* C19: in the boot sequence activate() is executed at most once, and      *)
(* exactly once when paging::initialize returns; when it is executed the   *)
(* allocator is initialized, the 1 GiB identity mapping and every heap     *)
(* page are mapped, the step before it was the mapping of the last heap    *)
(* page, and no mapping is written after it.                               *)
(***************************************************************************)
C19_ActivateOnceAfterPopulation == [](C19_State) /\ [][C19_Step]_vars

\* paging::initialize has just activated the populated tables.
C19_Witness ==
    /\ boot.pc = "return"
    /\ boot.activations = 1
    /\ boot.cr3 = pt4
    /\ op = Some([name |-> "activate"])
    /\ halted = ""

(***************************************************************************)
(* C20: when paging::initialize has completed, the addresses 0 .. 1 GiB    *)
(* translate to themselves through one level-3 huge entry carrying only    *)
(* PRESENT and HUGE, and every page of [HEAP_START, HEAP_START+HEAP_SIZE)  *)
(* translates through a level-1 entry with PRESENT and WRITE and no other  *)
(* flag to a frame the allocator issued, different pages to different      *)
(* frames.                                                                 *)
(***************************************************************************)
C20_BootMappings ==
    (boot.pc \in {"return", "kmain"} /\ halted = "") =>
        /\ IdentityMapped
        /\ \A v \in { {}, {0}, {12}, {29}, 0..29, {5, 21} } :
            Translate(pt_mem, unwrap(pt4), v) = Some(v)
        /\ \A i \in HeapPages :
            LET path == Path(pt_mem, unwrap(pt4), 4, HeapPage(i)) IN
            /\ Len(path) = 4
            /\ flags(path[4].value) = PRESENT \cup WRITE
            /\ get_addr(path[4].value) \in { ToBits(addr(f)) : f \in Issued }
        /\ \A i, j \in HeapPages :
            Translate(pt_mem, unwrap(pt4), HeapPage(i))
              = Translate(pt_mem, unwrap(pt4), HeapPage(j)) => i = j

\* kstart has reached kmain with the heap mapped: 256 level-1 entries.
C20_Witness ==
    /\ boot.pc = "kmain"
    /\ halted = ""
    /\ Cardinality(Leaves(pt_mem, unwrap(pt4), 1)) = HEAP_SIZE \div PAGE_SIZE
    /\ Cardinality(Leaves(pt_mem, unwrap(pt4), 3)) = 1

\* The entries <<table, index>> whose value the step changes, among the
\* tables that exist before and after it.
Stored ==
    { ti \in UNION { {t} \X DOMAIN pt_mem'[t] :
                       t \in DOMAIN pt_mem \cap DOMAIN pt_mem' } :
        Entry(pt_mem', ti[1], ti[2]) # Entry(pt_mem, ti[1], ti[2]) }

(***************************************************************************)
(* C21: when get_new_table finds its slot absent, the step that installs   *)
(* the pointer in the parent entry comes after exactly one frame has been  *)
(* allocated and filled with zeros: at that step the frame the new entry   *)
(* points to is the one frame issued since get_new_table was entered, and  *)
(* all its entries are zero before and after the step, no child entry      *)
(* having been written.                                                    *)
(***************************************************************************)
C21_ZeroedBeforeInstalled ==
    [][ Walking =>
          \A ti \in Stored :
              (/\ ti[1] = unwrap(op).table
               /\ unwrap(op).LEVEL > unwrap(op).stop
               /\ points_to_table(unwrap(op).LEVEL, Entry(pt_mem', ti[1], ti[2])))
              => LET target == FromBits(get_addr(Entry(pt_mem', ti[1], ti[2]))) IN
                 /\ Len(issued) = unwrap(op).mark + 1
                 /\ target = addr(issued[Len(issued)])
                 /\ target \in DOMAIN pt_mem
                 /\ pt_mem[target] = << >>
                 /\ pt_mem'[target] = << >>
      ]_vars

\* The second call of a behaviour has just installed a level-2 table, the
\* new table still empty.
C21_Witness ==
    /\ Walking
    /\ calls = 2
    /\ unwrap(op).pc = "get_table_mut"
    /\ unwrap(op).LEVEL = 3
    /\ unwrap(op).pt # None
    /\ unwrap(unwrap(op).pt) \in DOMAIN pt_mem
    /\ pt_mem[unwrap(unwrap(op).pt)] = << >>
    /\ points_to_table(3, Entry(pt_mem, unwrap(op).table,
                                get_pt_index(3, unwrap(op).vaddr)))

(***************************************************************************)
(* C22: the map_mem at the end of a returning map_to_4k, map_to_2m or      *)
(* map_to_1g leaves its slot holding exactly (paddr & PTE_ADDR_MASK) |     *)
(* flags | PRESENT, with HUGE added at levels 2 and 3 and not at level 1,  *)
(* whatever the slot held before (no bit of an earlier mapping or table    *)
(* pointer remains), and changes no other slot of the table.               *)
(***************************************************************************)
C22_MapMemExact ==
    [][ \A name \in WalkNames :
          (Called(name) /\ halted' = "") =>
            LET q == unwrap(op')
                LEVEL == stop_level(name)
                path == Path(pt_mem', unwrap(pt4), 4, q.vaddr)
                t == path[5 - LEVEL].table
                index == get_pt_index(LEVEL, q.vaddr)
            IN /\ Len(path) = 5 - LEVEL
               /\ Entry(pt_mem', t, index)
                    = UNION { BitAnd(q.paddr, PTE_ADDR_MASK), q.flags, PRESENT,
                              IF LEVEL \in {2, 3} THEN HUGE ELSE {} }
               /\ \A i \in DOMAIN pt_mem'[t] \ {index} :
                    /\ t \in DOMAIN pt_mem
                    /\ Entry(pt_mem', t, i) = Entry(pt_mem, t, i)
      ]_vars

\* map_to_1g has written its huge entry with no flags over the pointer to a
\* level-2 table: three frames were issued, for the root, the level-3 table
\* and the level-2 table that is no longer referenced.
C22_Witness ==
    /\ Returned("map_to_1g")
    /\ calls = 2
    /\ unwrap(op).flags = NONE
    /\ Len(issued) >= 3
    /\ Cardinality(TablesAt(pt_mem, unwrap(pt4), 3)) = 1
    /\ TablesAt(pt_mem, unwrap(pt4), 2) = {}
    /\ \A t \in TablesAt(pt_mem, unwrap(pt4), 3) :
        /\ Cardinality(DOMAIN pt_mem[t]) = 1
        /\ \A i \in DOMAIN pt_mem[t] : pt_mem[t][i] = PRESENT \cup HUGE

(***************************************************************************)
(* C23, as stated, for frame_alloc() in every caller context: a call that  *)
(* has neither returned nor failed fatally can take its next step, in      *)
(* particular a frame_alloc() of an interrupt handler that preempted code  *)
(* holding the allocator lock goes on to return or fail and does not wait  *)
(* forever.                                                                *)
(***************************************************************************)
C23_NeverWaitsForever ==
    (halted = "" /\ \E c \in Callers : callers[c].pc # "idle")
        => ENABLED NextIrq

(***************************************************************************)
(* C24: initialize() run again after frames were issued does not fail and  *)
(* replaces the whole allocator state by the state new() constructs, with  *)
(* the cursor back at the first page of the working window; every alloc()  *)
(* after it returns a frame or runs out of memory, and the frame may be    *)
(* one that was issued before the re-initialization (C24_Witness).         *)
(***************************************************************************)
C24_Reinitialize ==
    [][ (calls' = calls + 1) =>
          /\ halted' = ""
          /\ FALLOCATOR' = new(mem_regions, protected_regions).allocator
          /\ unwrap(FALLOCATOR').start
               = addr(after(MMapEntry_start(unwrap(free_region'))))
          /\ unwrap(FALLOCATOR').start <= unwrap(FALLOCATOR).start
      ]_vars

\* Two frames were issued, initialize ran again, and alloc() returned the
\* first of them a second time.
C24_Witness ==
    /\ calls = 1
    /\ halted = ""
    /\ Len(issued) = 3
    /\ issued[1] # issued[2]
    /\ issued[3] = issued[1]
    /\ ret = Some([op |-> "alloc", val |-> issued[1]])

(***************************************************************************)
(* C25, as stated: in every reachable state of an allocator constructed    *)
(* over any Free region, cursor <= limit, both are page-aligned, the       *)
(* subtraction of free_pages() does not underflow, and no issued frame     *)
(* lies at or beyond the limit.                                            *)
(***************************************************************************)
C25_CursorWithinLimit ==
    FALLOCATOR # None =>
        LET self == unwrap(FALLOCATOR) IN
        /\ self.start <= self.end
        /\ self.start % PAGE_SIZE = 0
        /\ self.end % PAGE_SIZE = 0
        /\ ~free_pages(self).overflow
        /\ \A f \in Issued : addr(f) < self.end

\* The present entries of the reachable tree that point to a next-level
\* table, as <<level, table, index>>, and the table one points to.
Refs(mem, root) ==
    UNION { UNION { { <<LEVEL, t, i>> :
                        i \in { j \in DOMAIN mem[t] :
                                   points_to_table(LEVEL, mem[t][j]) } } :
                    t \in TablesAt(mem, root, LEVEL) } :
            LEVEL \in 2..4 }

Target(mem, r) == FromBits(get_addr(mem[r[2]][r[3]]))

\* The frames issued by the step.
NewlyIssued == { issued'[k] : k \in (Len(issued) + 1)..Len(issued') }

C26_Tree ==
    pt4 # None =>
        /\ \A i, j \in 1..Len(issued) : issued[i] = issued[j] => i = j
        /\ LET root == unwrap(pt4)
               refs == Refs(pt_mem, root)
           IN /\ \A r \in refs :
                   /\ Target(pt_mem, r) \in DOMAIN pt_mem
                   /\ containing(Target(pt_mem, r)) \in Issued
                   /\ Target(pt_mem, r) # root
              /\ \A r1, r2 \in refs :
                   Target(pt_mem, r1) = Target(pt_mem, r2) => r1 = r2

(***************************************************************************)
(* C26: the present non-terminal entries of every tree built through the   *)
(* facade form a tree: each points to a frame the allocator issued to      *)
(* PageTable::new, no table frame is the target of two entries and the     *)
(* root is the target of none; every frame that becomes a table is issued  *)
(* in the same call, no frame is issued twice, and the data frame of a     *)
(* returning map_4k is a frame issued in that call that holds no table.    *)
(***************************************************************************)
C26_TreeNotDag ==
    /\ [] C26_Tree
    /\ [][ /\ { containing(t) : t \in DOMAIN pt_mem' \ DOMAIN pt_mem }
               \subseteq NewlyIssued
           /\ (Called("map_4k") /\ halted' = "") =>
                LET path == Path(pt_mem', unwrap(pt4), 4, unwrap(op').vaddr)
                    data == FromBits(get_addr(path[4].value))
                IN /\ Len(path) = 4
                   /\ containing(data) \in NewlyIssued
                   /\ data \notin DOMAIN pt_mem'
         ]_vars

\* Two map_4k calls have built two disjoint paths below the root: nine
\* frames issued, seven tables, six table-pointing entries.
C26_Witness ==
    /\ Returned("map_4k")
    /\ calls = 2
    /\ Len(issued) = 9
    /\ Cardinality(Refs(pt_mem, unwrap(pt4))) = 6
    /\ Cardinality(DOMAIN pt_mem) = 7

(***************************************************************************)
(* C27, as stated: a map_to_4k, map_to_2m or map_4k call that fails with a *)
(* mapping conflict has issued no frame, left the allocator's cursor where *)
(* it was and changed no entry.                                            *)
(***************************************************************************)
C27_ConflictAllocatesNothing ==
    [][ (/\ \E name \in {"map_to_4k", "map_to_2m", "map_4k"} : Called(name)
         /\ halted' = "Memory already mapped to")
        => /\ issued' = issued
           /\ FALLOCATOR' = FALLOCATOR
           /\ pt_mem' = pt_mem ]_vars

(***************************************************************************)
(* C28, as stated: when a map_to_1g or map_to_2m call returns and the slot *)
(* it wrote pointed to a next-level table, every address that was          *)
(* translated by a present mapping below that slot is translated by the    *)
(* same entries afterwards.                                                *)
(***************************************************************************)
C28_NoSilentLoss ==
    [][ \A name \in {"map_to_1g", "map_to_2m"} :
          (Called(name) /\ halted' = "") =>
            LET LEVEL == stop_level(name)
                root == unwrap(pt4)
                slot == Path(pt_mem, root, 4, unwrap(op').vaddr)
            IN \A v \in MapVAddrs :
                 LET old == Path(pt_mem, root, 4, v) IN
                 (/\ Len(slot) > 5 - LEVEL
                  /\ Len(old) > 5 - LEVEL
                  /\ old[5 - LEVEL] = slot[5 - LEVEL]
                  /\ present(old[Len(old)].value))
                 => Path(pt_mem', root, 4, v) = old
      ]_vars

\* The block i is a successful allocation (alloc did not return null).
Successful(i) == blocks[i].ptr # {}

\* The first byte after block i; the block wraps around the address space
\* when the sum does not fit.
BlockEnd(i) == WrappingAdd(blocks[i].ptr, blocks[i].layout.size)

InHeap(i) ==
    /\ Leq(HEAP_START, blocks[i].ptr)
    /\ ~AddOverflows(blocks[i].ptr, blocks[i].layout.size)
    /\ Leq(BlockEnd(i), WrappingAdd(HEAP_START, ToBits(HEAP_SIZE)))

C29_Blocks ==
    /\ \A i \in 1..Len(blocks) :
        Successful(i) =>
            /\ BitAnd(blocks[i].ptr, align_mask(blocks[i].layout.align)) = {}
            /\ InHeap(i)
    /\ \A i, j \in 1..Len(blocks) :
        (Successful(i) /\ Successful(j) /\ i < j) =>
            Leq(BlockEnd(i), blocks[j].ptr)

(***************************************************************************)
(* C29, as stated: whatever the alloc and dealloc requests made to the     *)
(* bump allocator, every successful allocation starts at a multiple of its *)
(* alignment, lies wholly inside [HEAP_START, HEAP_START + HEAP_SIZE) and  *)
(* is disjoint from every other one, blocks passed to dealloc included;    *)
(* an alloc request returns, and when it returns null the allocator's next *)
(* pointer is unchanged.                                                   *)
(***************************************************************************)
C29_BumpAllocator ==
    /\ [] C29_Blocks
    /\ [][ (Len(blocks') = Len(blocks) + 1 /\ blocks'[Len(blocks')].ptr = {})
             => ALLOCATOR' = ALLOCATOR ]_vars
    /\ [] (halted = "")

\* The heap pages that hold a byte of block i, a block inside the heap.
PagesOf(i) ==
    LET first == FromBits(blocks[i].ptr \ HEAP_START)
        size == FromBits(blocks[i].layout.size)
    IN { p \in HeapPages : /\ first < (p + 1) * PAGE_SIZE
                           /\ p * PAGE_SIZE < first + size }

(***************************************************************************)
(* C30, as stated: once kstart has reached kmain, paging::initialize has   *)
(* mapped exactly HEAP_SIZE / PAGE_SIZE pages as 4 KiB pages, the pages of *)
(* [HEAP_START, HEAP_START + HEAP_SIZE), and every byte of every block the *)
(* bump allocator returns lies in one of them, mapped PRESENT and WRITE.   *)
(***************************************************************************)
C30_HeapCoincides ==
    (boot.pc = "kmain" /\ halted = "") =>
        /\ Cardinality(Leaves(pt_mem, unwrap(pt4), 1)) = HEAP_SIZE \div PAGE_SIZE
        /\ \A p \in HeapPages : Mapped4k(pt_mem, unwrap(pt4), HeapPage(p))
        /\ \A i \in 1..Len(blocks) :
            Successful(i) =>
                /\ InHeap(i)
                /\ \A p \in PagesOf(i) :
                    LET path == Path(pt_mem, unwrap(pt4), 4, HeapPage(p)) IN
                    /\ Len(path) = 4
                    /\ (PRESENT \cup WRITE) \subseteq flags(path[4].value)

=============================================================================
